---- MODULE Spec2Model ----
(***************************************************************************)
(* A state-machine model of the gameplay systems of bevy_game_jam_6        *)
(* (src/src/game/*.rs): the creature state machine, the punch, the         *)
(* explosion force and the spawner health.                                 *)
(*                                                                         *)
(* One frame of the Update schedule runs every system once.  The systems   *)
(* are added without ordering constraints between them, so within a frame  *)
(* they run in any order: `todo` holds the systems that have not run yet   *)
(* in the current frame.  Commands (insert, despawn, spawn) are deferred:  *)
(* a system appends them to `commands` and they are applied when the       *)
(* frame ends.  Events are read once by their reader; an event written     *)
(* after the reader ran is read in the next frame.                         *)
(*                                                                         *)
(* Numbers: time is in milliseconds; positions are points of the x axis in *)
(* pixels (every entity lies on one line, so a direction is a sign);       *)
(* velocities are fixed-point, VelScale units per pixel/second, and        *)
(* impulses and forces are integers.                                       *)
(***************************************************************************)
EXTENDS Integers, Sequences, FiniteSets, TLC

VARIABLES
    todo,                  \* systems still to run in the current frame
    dt,                    \* Time::delta of the current frame (ms)
    enemy,                 \* the Enemy entities, by id
    food,                  \* the Food entities, by id
    player,                \* the Player entity
    explosions,            \* the Explosion entities, by id
    spawners,              \* the Spawner entities, by id
    glove,                 \* the Cursor entity with its PunchState
    mouse,                 \* ButtonInput<MouseButton>: just_pressed(Left) this frame
    collisionEvents,       \* CollisionEvent::Started not yet read by eat
    punchCollisions,       \* CollisionEvent::Started not yet read by punch_hit_system
    startExplodingEvents,  \* StartExplodingEvent not yet read by the handler
    spawnEvents,           \* SpawnEvent written and not yet handled
    commands,              \* deferred commands of the current frame
    punchHits              \* per target: punch impulses received in the current activation

vars == <<todo, dt, enemy, food, player, explosions, spawners, glove, mouse,
          collisionEvents, punchCollisions, startExplodingEvents, spawnEvents,
          commands, punchHits>>

punchVars == <<glove, mouse, punchCollisions, punchHits>>

\* ------------------------------------------------------------ constants

STOMACH_CAP == 5
ENEMY_SPEED_DELTA == 5
BOUNCE_FORCE == 30000
ENEMY_MAX_SPEED_BASE == 100
ENEMY_ACCELERATION == 500
START_EXPLODING_DISTANCE == 80
ENEMY_BASE_SPEED == 2
EAT_COOLDOWN_MS == 100
EXPLODING_MIN_MS == 800
EXPLODING_MAX_MS == 1400
EXPLOSION_SIZE_BASE == 70
EXPLOSION_SIZE_STEP == 12
ENEMY_RADIUS == 10
SHAKE_INTENSITY == 4
FOOD_RADIUS == 1
FOOD_QUANTITY == 1
MAX_FOOD == 10

BASE_DISTANCE == 30
MAX_DISTANCE == 50
PUNCH_MS == 200
PUNCH_FORCE == 40000
GLOVE_RADIUS == 20

PLAYER_HEALTH == 5
PLAYER_COOLDOWN_MS == 1000
player_radius == 20

EXPLOSION_FORCE == 12000
MAX_SPAWNER_HEALTH == 8
SPAWNER_SIZE == 50
SPAWN_MS == 10000
SPAWNER_COOLDOWN_MS == 2000

\* Fixed-point scale of a velocity: velocities are multiples of 25/4 px/s in
\* every run of the model, so halving stays exact.
FracBits == 4
VelScale == 2 ^ FracBits

\* A creature's appetite is not bounded by the code; the physics step of the
\* model stops reporting food collisions of a creature at this appetite.
MaxAppetite == 7

EnemyIds == {"e1"}
FoodIds == {"f1"}
ExplosionIds == {"x1", "x2"}
SpawnerIds == {"s1"}

\* The points of the line an entity may be at.
Positions == {0, 10, 100}

\* Frame times of the creature specification.
CreatureDeltas == {50, 100}

\* Durations the random draw of Exploding::default may give.
ExplodingDurations == {EXPLODING_MIN_MS, EXPLODING_MAX_MS}

\* ------------------------------------------------------------ helpers

Abs(x) == IF x < 0 THEN -x ELSE x

\* Vec2::normalize_or_zero on the line.
Sign(x) == IF x > 0 THEN 1 ELSE IF x < 0 THEN -1 ELSE 0

Min(a, b) == IF a < b THEN a ELSE b
Max(a, b) == IF a > b THEN a ELSE b

\* Vec2::clamp_length_max on the line.
ClampLengthMax(x, m) == Max(-m, Min(m, x))

\* f32 multiplication by 0.5, exact on the fixed-point values of the model.
Half(v) == IF v >= 0 THEN v \div 2 ELSE -((-v) \div 2)

\* bevy Timer: from_seconds, tick, reset.
TimerNew(duration, repeating) ==
    [elapsed |-> 0, duration |-> duration, finished |-> FALSE, repeating |-> repeating]

\* A timer that stands still.
TimerTick_Stuck(t, d) == t

TimerTick(t, d) ==
    IF ~t.repeating /\ t.finished
    THEN t
    ELSE LET e == t.elapsed + d IN
         IF e >= t.duration
         THEN [t EXCEPT !.finished = TRUE,
                        !.elapsed = IF t.repeating THEN e % t.duration ELSE t.duration]
         ELSE [t EXCEPT !.finished = FALSE, !.elapsed = e]

TimerReset(t) == [t EXCEPT !.elapsed = 0, !.finished = FALSE]

NoTimer == TimerNew(0, FALSE)

\* The elements of a finite set, one after the other (a query's iteration).
RECURSIVE InOrder(_)
InOrder(S) ==
    IF S = {} THEN <<>>
    ELSE LET x == CHOOSE y \in S : TRUE
         IN  <<x>> \o InOrder(S \ {x})

\* ------------------------------------------------------------ entities

\* The bundle of enemy(): Enemy::default, Hungry::default, Velocity::default,
\* ExternalImpulse::default.  `tags` are the marker components present.
\* fasted is not a field of the program: it records the simulated time since
\* the creature last ate (or since the start), as Time sees it in the current
\* frame, and stops counting at the eat cooldown's duration.  Only the
\* cooldown frames let it count.
NewEnemy(p) ==
    [alive |-> TRUE, pos |-> p, vel |-> 0, impulse |-> 0,
     speed |-> ENEMY_BASE_SPEED,
     tags |-> {"Hungry"},
     appetite |-> 0,
     eatTimer |-> TimerNew(EAT_COOLDOWN_MS, FALSE),
     exploding |-> NoTimer,
     fasted |-> 0]

NoEnemy ==
    [alive |-> FALSE, pos |-> 0, vel |-> 0, impulse |-> 0, speed |-> 0,
     tags |-> {}, appetite |-> 0, eatTimer |-> NoTimer, exploding |-> NoTimer,
     fasted |-> 0]

\* Time advances by d at the start of the next frame.
EnemyTimeAdvances(en, d) ==
    [e \in DOMAIN en |->
       IF en[e].alive
       THEN [en[e] EXCEPT !.fasted = Min(@ + d, EAT_COOLDOWN_MS)]
       ELSE en[e]]

\* The bundle of food(): Food::default at a position.
NewFood(p) == [alive |-> TRUE, pos |-> p, qty |-> FOOD_QUANTITY]

NoFood == [alive |-> FALSE, pos |-> 0, qty |-> 0]

\* The player, with the PlayerHealth resource kept beside it: the health and
\* the damage cooldown, which outlive the player entity.  The Screen state and
\* the pending NextState<Screen> request ("None" when there is none) are kept
\* beside it as well.
\* since is not a field of the program: it records the simulated time since
\* the health was last decremented (or since the start), as Time sees it in
\* the current frame, and stops counting at the cooldown's duration.
NewPlayer(p) ==
    [alive |-> TRUE, pos |-> p, impulse |-> 0, health |-> PLAYER_HEALTH,
     cooldown |-> TimerNew(PLAYER_COOLDOWN_MS, FALSE), since |-> 0,
     screen |-> "Gameplay", next |-> "None"]

NoPlayer == [NewPlayer(0) EXCEPT !.alive = FALSE]

PlayerTimeAdvances(pl, d) ==
    [pl EXCEPT !.since = Min(@ + d, PLAYER_COOLDOWN_MS)]

\* Explosion::new: the radius is the size, the timer lasts 0.05 s plus 0.2 s
\* times the size's place between 50 and 110.
ExplosionDuration(size) ==
    50 + (Max(0, Min(Max(size, 1) - 50, 60)) * 200) \div 60

\* age is not a field of the program: it records the simulated time since the
\* explosion was spawned, as Time sees it in the current frame, and stops
\* counting at the timer's duration.
NewExplosion(p, size) ==
    [alive |-> TRUE, pos |-> p, size |-> size,
     timer |-> TimerNew(ExplosionDuration(size), FALSE), age |-> 0]

NoExplosion ==
    [alive |-> FALSE, pos |-> 0, size |-> 0, timer |-> NoTimer, age |-> 0]

\* Time advances by d at the start of the next frame.
TimeAdvances(ex, d) ==
    [x \in ExplosionIds |->
       IF ex[x].alive
       THEN [ex[x] EXCEPT !.age = Min(ex[x].age + d, ex[x].timer.duration)]
       ELSE ex[x]]

LiveExplosions(ex) == {x \in ExplosionIds : ex[x].alive}

\* The bundles that carry an ExternalImpulse: enemy() and player(). food() is
\* a kinematic body with a Velocity only, spawner() a fixed body, cursor() a
\* kinematic sensor, explosion() a sensor.
ExternalImpulseKinds == {"Enemy", "Player"}

\* The bundle of spawner(): Spawner::default and SpawnerHealth::default.
\* since is not a field of the program: it records the simulated time since
\* the spawner was spawned or last damaged, as Time sees it in the current
\* frame, and stops counting at the cooldown's duration.
NewSpawner(p) ==
    [alive |-> TRUE, pos |-> p,
     timer |-> TimerNew(SPAWN_MS, TRUE), spent |-> FALSE,
     health |-> MAX_SPAWNER_HEALTH,
     cooldown |-> TimerNew(SPAWNER_COOLDOWN_MS, FALSE), since |-> 0]

NoSpawner ==
    [alive |-> FALSE, pos |-> 0, timer |-> NoTimer, spent |-> FALSE,
     health |-> 0, cooldown |-> NoTimer, since |-> 0]

\* Time advances by d at the start of the next frame.
SpawnerTimeAdvances(sp, d) ==
    [x \in SpawnerIds |->
       IF sp[x].alive
       THEN [sp[x] EXCEPT !.since = Min(sp[x].since + d, sp[x].cooldown.duration)]
       ELSE sp[x]]

LiveSpawners(sp) == {x \in SpawnerIds : sp[x].alive}

LiveEnemies(en) == {e \in DOMAIN en : en[e].alive}
LiveFood(fd) == {f \in DOMAIN fd : fd[f].alive}

\* ------------------------------------------------------------ frame

\* A system runs once per frame, at any point of the frame.
Runs(system) == system \in todo /\ todo' = todo \ {system}

Cmd(op, ent, arg) == [op |-> op, ent |-> ent, arg |-> arg]

\* ------------------------------------------------------------ enemy.rs

\* enemy_query.get of eat: an Enemy with Hungry, Transform and ExternalImpulse.
EatEnemyMatches(x, en) == x \in DOMAIN en /\ en[x].alive /\ "Hungry" \in en[x].tags

\* food_query.get of eat.
EatFoodMatches(x, fd) == x \in DOMAIN fd /\ fd[x].alive

\* An eat that leaves the speed as it was.
EatOne_SameSpeed(en, fd, e, f) ==
    [enemy |-> [en EXCEPT ![e].appetite = @ + 1,
                         ![e].eatTimer = TimerReset(@),
                         ![e].fasted = 0,
                         ![e].impulse = @ + Sign(en[e].pos - fd[f].pos) * BOUNCE_FORCE],
     food |-> [fd EXCEPT ![f].qty = @ - 1]]

\* An eat that leaves the food as it was.
EatOne_KeepsFood(en, fd, e, f) ==
    [enemy |-> [en EXCEPT ![e].appetite = @ + 1,
                         ![e].speed = @ + ENEMY_SPEED_DELTA,
                         ![e].eatTimer = TimerReset(@),
                         ![e].fasted = 0,
                         ![e].impulse = @ + Sign(en[e].pos - fd[f].pos) * BOUNCE_FORCE],
     food |-> fd]

\* An eat that does not push the creature off the food.
EatOne_NoBounce(en, fd, e, f) ==
    [enemy |-> [en EXCEPT ![e].appetite = @ + 1,
                         ![e].speed = @ + ENEMY_SPEED_DELTA,
                         ![e].eatTimer = TimerReset(@),
                         ![e].fasted = 0],
     food |-> [fd EXCEPT ![f].qty = @ - 1]]

\* One successful eat of food f by enemy e.
EatOne(en, fd, e, f) ==
    [enemy |-> [en EXCEPT ![e].appetite = @ + 1,
                         ![e].speed = @ + ENEMY_SPEED_DELTA,
                         ![e].eatTimer = TimerReset(@),
                         ![e].fasted = 0,
                         ![e].impulse = @ + Sign(en[e].pos - fd[f].pos) * BOUNCE_FORCE],
     food |-> [fd EXCEPT ![f].qty = @ - 1]]

\* The command eat queues when the creature is full: remove Eating, insert Hunting.
EatFullCommands(en, e) ==
    IF en[e].appetite >= STOMACH_CAP THEN {Cmd("insert_hunting", e, 0)} ELSE {}

\* The loop of eat over the collision events, in order.
RECURSIVE EatLoop(_, _, _, _)
EatLoop(evs, en, fd, cmds) ==
    IF evs = <<>>
    THEN [enemy |-> en, food |-> fd, cmds |-> cmds]
    ELSE LET e1 == Head(evs)[1]
             e2 == Head(evs)[2]
             rest == Tail(evs)
         IN  IF ~((EatFoodMatches(e1, fd) /\ EatEnemyMatches(e2, en))
                  \/ (EatFoodMatches(e2, fd) /\ EatEnemyMatches(e1, en)))
             THEN EatLoop(rest, en, fd, cmds)
             ELSE LET f == IF EatFoodMatches(e1, fd) /\ EatEnemyMatches(e2, en)
                           THEN e1 ELSE e2
                      e == IF EatFoodMatches(e1, fd) /\ EatEnemyMatches(e2, en)
                           THEN e2 ELSE e1
                  IN  IF fd[f].qty = 0
                      THEN EatLoop(rest, en, fd, cmds)
                      ELSE IF ~en[e].eatTimer.finished
                      THEN EatLoop(rest, en, fd, cmds)
                      ELSE LET r == EatOne(en, fd, e, f)
                           IN  EatLoop(rest, r.enemy, r.food,
                                       cmds \cup EatFullCommands(r.enemy, e))

eat ==
    /\ Runs("eat")
    /\ LET r == EatLoop(collisionEvents, enemy, food, commands)
       IN  /\ enemy' = r.enemy
           /\ food' = r.food
           /\ commands' = r.cmds
    /\ collisionEvents' = <<>>
    /\ UNCHANGED <<dt, player, explosions, spawners, startExplodingEvents,
                   spawnEvents, punchVars>>

tick_eat_cooldown ==
    /\ Runs("tick_eat_cooldown")
    /\ enemy' = [e \in DOMAIN enemy |->
                    IF enemy[e].alive /\ "Hungry" \in enemy[e].tags
                    THEN [enemy[e] EXCEPT !.eatTimer = TimerTick(@, dt)]
                    ELSE enemy[e]]
    /\ UNCHANGED <<dt, food, player, explosions, spawners, collisionEvents,
                   startExplodingEvents, spawnEvents, commands, punchVars>>

\* The steering step both run_to_ systems share: accelerate toward a target
\* velocity by at most ENEMY_ACCELERATION * delta.
Steer(vel, direction, maxSpeed, delta) ==
    LET target == direction * maxSpeed * VelScale
        step == (ENEMY_ACCELERATION * delta * VelScale) \div 1000
    IN  vel + ClampLengthMax(target - vel, step)

\* A query that lets go of the creature once its StartExplodingEvent is written.
RunToPlayerMatches_NoEvent(e) ==
    /\ enemy[e].alive /\ "Hunting" \in enemy[e].tags /\ "Exploding" \notin enemy[e].tags
    /\ startExplodingEvents[e] = 0

RunToPlayerMatches(e) ==
    enemy[e].alive /\ "Hunting" \in enemy[e].tags /\ "Exploding" \notin enemy[e].tags

run_to_player ==
    /\ Runs("run_to_player")
    /\ enemy' = IF ~player.alive
                THEN enemy
                ELSE [e \in EnemyIds |->
                        IF RunToPlayerMatches(e)
                        THEN [enemy[e] EXCEPT !.vel =
                                Steer(@, Sign(player.pos - enemy[e].pos),
                                      ENEMY_MAX_SPEED_BASE * enemy[e].speed, dt)]
                        ELSE enemy[e]]
    /\ UNCHANGED <<dt, food, player, explosions, spawners, collisionEvents,
                   startExplodingEvents, spawnEvents, commands, punchVars>>

RunToFoodMatches(e) ==
    /\ enemy[e].alive
    /\ "Hungry" \in enemy[e].tags
    /\ "Exploding" \notin enemy[e].tags
    /\ "Hunting" \notin enemy[e].tags

\* A search that ends on any food, near or far.
ClosestFood_Any(e) == LiveFood(food)

\* The foods the closest-food search of run_to_food may end on: the search keeps
\* the first food of minimal distance in the query's iteration order.
ClosestFood(e) ==
    {f \in LiveFood(food) :
        \A g \in LiveFood(food) :
            Abs(food[f].pos - enemy[e].pos) <= Abs(food[g].pos - enemy[e].pos)}

run_to_food ==
    /\ Runs("run_to_food")
    /\ IF LiveFood(food) = {}
       THEN enemy' = enemy
       ELSE \E target \in [EnemyIds -> LiveFood(food)] :
              /\ \A e \in EnemyIds : target[e] \in ClosestFood(e)
              /\ enemy' = [e \in EnemyIds |->
                             IF RunToFoodMatches(e)
                             THEN [enemy[e] EXCEPT !.vel =
                                     Steer(@, Sign(food[target[e]].pos - enemy[e].pos),
                                           ENEMY_MAX_SPEED_BASE, dt)]
                             ELSE enemy[e]]
    /\ UNCHANGED <<dt, food, player, explosions, spawners, collisionEvents,
                   startExplodingEvents, spawnEvents, commands, punchVars>>

\* A test of the player's nearness that takes a creature in any state.
NearPlayerMatches_AnyState(e) == enemy[e].alive /\ "Exploding" \notin enemy[e].tags

NearPlayerMatches(e) ==
    enemy[e].alive /\ "Hunting" \in enemy[e].tags /\ "Exploding" \notin enemy[e].tags

start_explode_near_player ==
    /\ Runs("start_explode_near_player")
    /\ startExplodingEvents' =
          IF ~player.alive
          THEN startExplodingEvents
          ELSE [e \in EnemyIds |->
                  IF /\ NearPlayerMatches(e)
                     /\ Abs(enemy[e].pos - player.pos) < START_EXPLODING_DISTANCE
                  THEN startExplodingEvents[e] + 1
                  ELSE startExplodingEvents[e]]
    /\ UNCHANGED <<dt, enemy, food, player, explosions, spawners, collisionEvents,
                   spawnEvents, commands, punchVars>>

\* velocity.linvel *= 0.5, once per event read.
RECURSIVE HalfTimes(_, _)
HalfTimes(v, n) == IF n = 0 THEN v ELSE HalfTimes(Half(v), n - 1)

\* The handler's effect on the velocity of the entity of n events.
HandlerVelocity(v, n) == HalfTimes(v, n)

\* A get_mut that finds every entity an event names.
HandlerMatches_Any(e) == TRUE

\* enemy_query.get_mut of the handler: any Enemy with a Velocity.
HandlerMatches(e) == enemy[e].alive

start_exploding_event_handler ==
    /\ Runs("start_exploding_event_handler")
    /\ LET hit == {e \in DOMAIN enemy :
                     startExplodingEvents[e] > 0 /\ HandlerMatches(e)}
       IN  /\ enemy' = [e \in DOMAIN enemy |->
                          IF e \in hit
                          THEN [enemy[e] EXCEPT !.vel =
                                  HandlerVelocity(@, startExplodingEvents[e])]
                          ELSE enemy[e]]
           /\ \E duration \in [hit -> ExplodingDurations] :
                commands' = commands \cup
                    {Cmd("insert_exploding", e, duration[e]) : e \in hit}
    /\ startExplodingEvents' = [e \in DOMAIN enemy |-> 0]
    /\ UNCHANGED <<dt, food, player, explosions, spawners, collisionEvents,
                   spawnEvents, punchVars>>

\* The size of the Explosion explode requests: the appetite, clamped to 0..5,
\* of a creature that has Hungry, else 0.
ExplodeSize(en) ==
    LET raw == IF "Hungry" \in en.tags THEN en.appetite ELSE 0
        clamped == Max(0, Min(raw, 5))
    IN  EXPLOSION_SIZE_BASE + clamped * EXPLOSION_SIZE_STEP

\* A query of explode that finds no creature.
ExplodeMatches_None(e) == FALSE

ExplodeMatches(e) == enemy[e].alive /\ "Exploding" \in enemy[e].tags

explode ==
    /\ Runs("explode")
    /\ LET ticked == [e \in EnemyIds |->
                        IF ExplodeMatches(e)
                        THEN [enemy[e] EXCEPT !.exploding = TimerTick(@, dt)]
                        ELSE enemy[e]]
           done == {e \in EnemyIds : ExplodeMatches(e) /\ ticked[e].exploding.finished}
       IN  /\ enemy' = ticked
           /\ commands' = commands \cup {Cmd("despawn_enemy", e, 0) : e \in done}
           /\ spawnEvents' = spawnEvents \o
                 [i \in 1..Cardinality(done) |->
                    LET e == InOrder(done)[i]
                    IN  [kind |-> "Explosion", pos |-> ticked[e].pos,
                         size |-> ExplodeSize(ticked[e])]]
    /\ UNCHANGED <<dt, food, player, explosions, spawners, collisionEvents,
                   startExplodingEvents, punchVars>>

\* A chain reaction that takes the Hunting creatures only.
StartExplodeMatches_HuntingOnly(e) ==
    enemy[e].alive /\ "Hunting" \in enemy[e].tags /\ "Exploding" \notin enemy[e].tags

\* enemy_query of start_explode: any Enemy that is not Exploding.
StartExplodeMatches(e) == enemy[e].alive /\ "Exploding" \notin enemy[e].tags

\* The explosions whose radius the creature e is strictly within.
ExplosionsAround(e) ==
    {x \in LiveExplosions(explosions) :
        Abs(explosions[x].pos - enemy[e].pos) < explosions[x].size}

\* start_explode: one StartExplodingEvent per creature and explosion around it.
start_explode ==
    /\ Runs("start_explode")
    /\ startExplodingEvents' =
          [e \in EnemyIds |->
              IF StartExplodeMatches(e)
              THEN startExplodingEvents[e] + Cardinality(ExplosionsAround(e))
              ELSE startExplodingEvents[e]]
    /\ UNCHANGED <<dt, enemy, food, player, explosions, spawners, collisionEvents,
                   spawnEvents, commands, punchVars>>

\* The offsets gen_range(-SHAKE_INTENSITY..SHAKE_INTENSITY) draws from: the
\* least, none, and the greatest whole one.
ShakeOffsets == {-SHAKE_INTENSITY, 0, SHAKE_INTENSITY - 1}

\* shake_when_explode: every Exploding creature's Transform moves by an offset.
shake_when_explode ==
    /\ Runs("shake_when_explode")
    /\ \E offset \in [EnemyIds -> ShakeOffsets] :
         enemy' = [e \in EnemyIds |->
                     IF enemy[e].alive /\ "Exploding" \in enemy[e].tags
                     THEN [enemy[e] EXCEPT !.pos = @ + offset[e]]
                     ELSE enemy[e]]
    /\ UNCHANGED <<dt, food, player, explosions, spawners, collisionEvents,
                   startExplodingEvents, spawnEvents, commands, punchVars>>

\* ------------------------------------------------------------ food.rs

despawn_eaten_food ==
    /\ Runs("despawn_eaten_food")
    /\ commands' = commands \cup
          {Cmd("despawn_food", f, 0) : f \in {g \in LiveFood(food) : food[g].qty < 1}}
    /\ UNCHANGED <<dt, enemy, food, player, explosions, spawners, collisionEvents,
                   startExplodingEvents, spawnEvents, punchVars>>

\* A count of spawn_food that never reaches the limit.
SpawnFoodFull_Never(fd) == FALSE

\* The early return of spawn_food: MAX_FOOD Food entities exist.
SpawnFoodFull(fd) == Cardinality(LiveFood(fd)) >= MAX_FOOD

\* spawn_food: one Food at a random position while fewer than MAX_FOOD exist.
\* The Level entity exists throughout Gameplay.  The model holds at most the
\* Food entities of the domain of food: with none of them free nothing is
\* spawned.
spawn_food ==
    /\ Runs("spawn_food")
    /\ IF SpawnFoodFull(food) \/ LiveFood(food) = DOMAIN food
       THEN commands' = commands
       ELSE \E p \in Positions : commands' = commands \cup {Cmd("spawn_food", "new", p)}
    /\ UNCHANGED <<dt, enemy, food, player, explosions, spawners, collisionEvents,
                   startExplodingEvents, spawnEvents, punchVars>>

\* ------------------------------------------------------------ cursor.rs

\* The glove: the Transform (position on the line, and the side its rotation
\* points to) and the PunchState of cursor(), once move_cursor has placed it
\* next to the player on the side d.
NewGlove(playerPos, d) ==
    [alive |-> TRUE, pos |-> playerPos + d * BASE_DISTANCE, forward |-> d,
     is_punching |-> FALSE,
     timer |-> TimerNew(PUNCH_MS, FALSE),
     hit_entities |-> {}]

NoGlove ==
    [alive |-> FALSE, pos |-> 0, forward |-> 1, is_punching |-> FALSE,
     timer |-> NoTimer, hit_entities |-> {}]

\* ButtonInput::just_pressed(Left) and CursorWorldCoords of the frame.
NoMouse == [just_pressed |-> FALSE, coords |-> 0]

\* A sound request, in the shape of the SpawnEvent records.
SoundEvent(kind) == [kind |-> kind, pos |-> 0, size |-> 0]

\* A phase of hits that lasts the whole punch, the retraction included.
ExtensionPhase_WholePunch(g) == g.is_punching

\* t = elapsed / duration < 0.5 while punching: the extension phase.
ExtensionPhase(g) == g.is_punching /\ 2 * g.timer.elapsed < g.timer.duration

\* distance_from_player of move_cursor: BASE_DISTANCE + punch_percent * MAX_DISTANCE,
\* punch_percent = 2t while t < 0.5, 2 - 2t after.
PunchDistance(g) ==
    IF ~g.is_punching
    THEN BASE_DISTANCE
    ELSE IF 2 * g.timer.elapsed < g.timer.duration
         THEN BASE_DISTANCE + (2 * g.timer.elapsed * MAX_DISTANCE) \div g.timer.duration
         ELSE BASE_DISTANCE
                + ((2 * g.timer.duration - 2 * g.timer.elapsed) * MAX_DISTANCE)
                     \div g.timer.duration

move_cursor ==
    /\ Runs("move_cursor")
    /\ IF ~glove.alive \/ ~player.alive
       THEN glove' = glove
       ELSE LET ticked == IF glove.is_punching
                          THEN TimerTick(glove.timer, dt) ELSE glove.timer
                g1 == [glove EXCEPT !.timer = ticked,
                                    !.is_punching = glove.is_punching /\ ~ticked.finished]
                direction == Sign(mouse.coords - player.pos)
            IN  glove' = [g1 EXCEPT !.pos = player.pos + direction * PunchDistance(g1),
                                    !.forward = IF direction = 0 THEN 1 ELSE direction]
    /\ UNCHANGED <<dt, enemy, food, player, explosions, spawners, mouse,
                   collisionEvents, punchCollisions, startExplodingEvents,
                   spawnEvents, commands, punchHits>>

\* A press that starts the punch anew while the glove is punching.
punch_input_system_Restart ==
    /\ Runs("punch_input_system")
    /\ IF mouse.just_pressed /\ glove.alive
       THEN /\ glove' = [glove EXCEPT !.timer = TimerReset(@),
                                      !.is_punching = TRUE,
                                      !.hit_entities = {}]
            /\ spawnEvents' = Append(spawnEvents, SoundEvent("PunchSwish"))
            /\ punchHits' = [t \in DOMAIN punchHits |-> 0]
       ELSE UNCHANGED <<glove, spawnEvents, punchHits>>
    /\ UNCHANGED <<dt, enemy, food, player, explosions, spawners, mouse,
                   collisionEvents, punchCollisions, startExplodingEvents, commands>>

punch_input_system ==
    /\ Runs("punch_input_system")
    /\ IF mouse.just_pressed /\ glove.alive /\ ~glove.is_punching
       THEN /\ glove' = [glove EXCEPT !.timer = TimerReset(@),
                                      !.is_punching = TRUE,
                                      !.hit_entities = {}]
            /\ spawnEvents' = Append(spawnEvents, SoundEvent("PunchSwish"))
            /\ punchHits' = [t \in DOMAIN punchHits |-> 0]
       ELSE UNCHANGED <<glove, spawnEvents, punchHits>>
    /\ UNCHANGED <<dt, enemy, food, player, explosions, spawners, mouse,
                   collisionEvents, punchCollisions, startExplodingEvents, commands>>

\* The direction of a punch impulse along the line: 0.8 of the side the glove
\* points to, 0.2 of the side the target is on.
PunchDirection(g, targetPos) == Sign(8 * g.forward + 2 * Sign(targetPos - g.pos))

\* A hit set that takes a target it holds for a new one.
HitEntitiesInsert_Always(hit, target) == TRUE

\* HashSet::insert of the hit set: TRUE when the target was not yet in it.
HitEntitiesInsert(hit, target) == target \notin hit

\* One punch of try_punch or of the event loop: the target enters the hit set;
\* one that has an ExternalImpulse (an Enemy) gets force along the punch
\* direction and a hit sound.  st is <<glove, enemy, punch count, sounds>>.
\* A punch that leaves the target out of the hit set.
PunchOne_NoRecord(st, target, force) ==
    LET en == st[2]
    IN  IF target \in EnemyIds /\ en[target].alive
        THEN <<st[1],
               [en EXCEPT ![target].impulse =
                   @ + PunchDirection(st[1], en[target].pos) * force],
               [st[3] EXCEPT ![target] = @ + 1],
               Append(st[4], SoundEvent("PunchSound"))>>
        ELSE st

PunchOne(st, target, force) ==
    LET g == st[1]
        en == st[2]
        g1 == [g EXCEPT !.hit_entities = @ \cup {target}]
    IN  IF target \in EnemyIds /\ en[target].alive
        THEN <<g1,
               [en EXCEPT ![target].impulse =
                   @ + PunchDirection(g, en[target].pos) * force],
               [st[3] EXCEPT ![target] = @ + 1],
               Append(st[4], SoundEvent("PunchSound"))>>
        ELSE <<g1, en, st[3], st[4]>>

\* The event loop of punch_hit_system.
RECURSIVE PunchHitLoop(_, _)
PunchHitLoop(evs, st) ==
    IF evs = <<>> THEN st
    ELSE LET ev == Head(evs)
             g == st[1]
             target == IF ev[1] = "glove" THEN ev[2] ELSE ev[1]
             valid == \/ target \in EnemyIds /\ st[2][target].alive
                      \/ target \in FoodIds /\ food[target].alive
         IN  IF \/ "glove" \notin {ev[1], ev[2]}
                \/ ~g.alive
                \/ ~ExtensionPhase(g)
                \/ ~HitEntitiesInsert(g.hit_entities, target)
             THEN PunchHitLoop(Tail(evs), st)
             ELSE IF ~valid
                  THEN PunchHitLoop(Tail(evs),
                         <<[g EXCEPT !.hit_entities = @ \cup {target}],
                           st[2], st[3], st[4]>>)
                  ELSE PunchHitLoop(Tail(evs), PunchOne(st, target, PUNCH_FORCE))

punch_hit_system ==
    /\ Runs("punch_hit_system")
    /\ LET st == PunchHitLoop(punchCollisions, <<glove, enemy, punchHits, spawnEvents>>)
       IN  /\ glove' = st[1]
           /\ enemy' = st[2]
           /\ punchHits' = st[3]
           /\ spawnEvents' = st[4]
    /\ punchCollisions' = <<>>
    /\ UNCHANGED <<dt, food, player, explosions, spawners, mouse, collisionEvents,
                   startExplodingEvents, commands>>

\* glove_pos.distance_squared(target_pos) <= GLOVE_RADIUS * GLOVE_RADIUS
InGloveReach(g, targetPos) ==
    (g.pos - targetPos) * (g.pos - targetPos) <= GLOVE_RADIUS * GLOVE_RADIUS

\* The two loops of manual_punch_check_system, Food first, then Enemy.
RECURSIVE ManualLoop(_, _)
ManualLoop(targets, st) ==
    IF targets = <<>> THEN st
    ELSE LET target == Head(targets)
         IN  IF HitEntitiesInsert(st[1].hit_entities, target)
             THEN ManualLoop(Tail(targets), PunchOne(st, target, 2 * PUNCH_FORCE))
             ELSE ManualLoop(Tail(targets), st)

manual_punch_check_system ==
    /\ Runs("manual_punch_check_system")
    /\ IF glove.alive /\ ExtensionPhase(glove)
       THEN LET foods == {f \in LiveFood(food) : InGloveReach(glove, food[f].pos)}
                enemies == {e \in LiveEnemies(enemy) : InGloveReach(glove, enemy[e].pos)}
                st == ManualLoop(InOrder(foods) \o InOrder(enemies),
                                 <<glove, enemy, punchHits, spawnEvents>>)
            IN  /\ glove' = st[1]
                /\ enemy' = st[2]
                /\ punchHits' = st[3]
                /\ spawnEvents' = st[4]
       ELSE UNCHANGED <<glove, enemy, punchHits, spawnEvents>>
    /\ UNCHANGED <<dt, food, player, explosions, spawners, mouse, collisionEvents,
                   punchCollisions, startExplodingEvents, commands>>

\* ------------------------------------------------------------ spawner.rs

\* The spawn commands spawn_event_handler queues: one per Enemy, Food,
\* Explosion or Pipe request, numbered as read.  A sound request spawns a
\* sound entity, which has no state here.
SpawnCmd(kind, idx, p, size) ==
    [op |-> "spawn", kind |-> kind, ent |-> "new", idx |-> idx, arg |-> p, size |-> size]

SoundKinds == {"PunchSound", "PunchSwish", "BoulderSound"}

spawn_event_handler ==
    /\ Runs("spawn_event_handler")
    /\ commands' = commands \cup
          {SpawnCmd(spawnEvents[i].kind, i, spawnEvents[i].pos, spawnEvents[i].size) :
              i \in {j \in DOMAIN spawnEvents : spawnEvents[j].kind \notin SoundKinds}}
    /\ spawnEvents' = <<>>
    /\ UNCHANGED <<dt, enemy, food, player, explosions, spawners, glove, mouse,
                   collisionEvents, punchCollisions, startExplodingEvents, punchHits>>

\* A spawner that fires whether spent or not.
\* A spawner that is not spent and fires in every tick.
SpawnerFires_Always(sp) == ~sp.spent

SpawnerFires_Spent(sp) == sp.timer.finished

\* spawner.0.finished() && !spawner.1
SpawnerFires(sp) == sp.timer.finished /\ ~sp.spent

spawn_enemy ==
    /\ Runs("spawn_enemy")
    /\ LET ticked == [x \in SpawnerIds |->
                        IF spawners[x].alive
                        THEN [spawners[x] EXCEPT !.timer = TimerTick(@, dt)]
                        ELSE spawners[x]]
           firing == {x \in LiveSpawners(spawners) : SpawnerFires(ticked[x])}
       IN  /\ spawners' = ticked
           /\ spawnEvents' = spawnEvents \o
                 [i \in 1..Cardinality(firing) |->
                    [kind |-> "Enemy",
                     pos |-> ticked[InOrder(firing)[i]].pos - SPAWNER_SIZE,
                     size |-> 0]]
    /\ UNCHANGED <<dt, enemy, food, player, explosions, glove, mouse, collisionEvents,
                   punchCollisions, startExplodingEvents, commands, punchHits>>

\* distance <= spawner_radius + explosion_radius
ExplosionReaches(ex, sp) == 2 * Abs(sp.pos - ex.pos) <= SPAWNER_SIZE + 2 * ex.size

\* Damage that goes by the health alone, not by the cooldown.
DamageApplies_NoCooldown(sp) == sp.health > 0

\* health.cooldown.finished() && health.health > 0
DamageApplies(sp) == sp.cooldown.finished /\ sp.health > 0

\* The body of the explosion loop for one explosion in reach: st is
\* <<spawner, sounds>>.
DamageOne(st) ==
    IF DamageApplies(st[1])
    THEN <<[st[1] EXCEPT !.health = @ - 1,
                         !.cooldown = TimerReset(@),
                         !.spent = IF st[1].health - 1 = 0 THEN TRUE ELSE @,
                         !.since = 0],
           Append(st[2], SoundEvent("BoulderSound"))>>
    ELSE st

RECURSIVE DamageLoop(_, _)
DamageLoop(n, st) == IF n = 0 THEN st ELSE DamageLoop(n - 1, DamageOne(st))

\* The spawner loop of damage_spawners_from_explosions.
RECURSIVE DamageSpawners(_, _, _)
DamageSpawners(ids, sp, sounds) ==
    IF ids = <<>> THEN <<sp, sounds>>
    ELSE LET x == Head(ids)
             ticked == [sp[x] EXCEPT !.cooldown = TimerTick(@, dt)]
             reach == {y \in LiveExplosions(explosions) :
                          ExplosionReaches(explosions[y], ticked)}
             st == DamageLoop(Cardinality(reach), <<ticked, sounds>>)
         IN  DamageSpawners(Tail(ids), [sp EXCEPT ![x] = st[1]], st[2])

damage_spawners_from_explosions ==
    /\ Runs("damage_spawners_from_explosions")
    /\ LET st == DamageSpawners(InOrder(LiveSpawners(spawners)), spawners, spawnEvents)
       IN  /\ spawners' = st[1]
           /\ spawnEvents' = st[2]
    /\ UNCHANGED <<dt, enemy, food, player, explosions, glove, mouse, collisionEvents,
                   punchCollisions, startExplodingEvents, commands, punchHits>>

tick_cooldown_timers ==
    /\ Runs("tick_cooldown_timers")
    /\ spawners' = [x \in SpawnerIds |->
                      IF spawners[x].alive
                      THEN [spawners[x] EXCEPT !.cooldown = TimerTick(@, dt)]
                      ELSE spawners[x]]
    /\ UNCHANGED <<dt, enemy, food, player, explosions, glove, mouse, collisionEvents,
                   punchCollisions, startExplodingEvents, spawnEvents, commands,
                   punchHits>>

\* ------------------------------------------------------------ explosion.rs

explosion_animation ==
    /\ Runs("explosion_animation")
    /\ explosions' = [x \in ExplosionIds |->
                        IF explosions[x].alive
                        THEN [explosions[x] EXCEPT !.timer = TimerTick(@, dt)]
                        ELSE explosions[x]]
    /\ UNCHANGED <<dt, enemy, food, player, spawners, glove, mouse, collisionEvents,
                   punchCollisions, startExplodingEvents, spawnEvents, commands,
                   punchHits>>

\* The loop of despawn_explosion over the explosions in query order: it ends
\* at the first explosion whose timer has not finished.  st is
\* <<explosions, commands>>.
RECURSIVE DespawnLoop(_, _)
DespawnLoop(ids, st) ==
    IF ids = <<>> THEN st
    ELSE LET x == Head(ids)
             ticked == [st[1] EXCEPT ![x].timer = TimerTick(@, dt)]
         IN  IF ~ticked[x].timer.finished
             THEN <<ticked, st[2]>>
             ELSE DespawnLoop(Tail(ids),
                              <<ticked, st[2] \cup {Cmd("despawn_explosion", x, 0)}>>)

\* The orders a query may visit the entities of S in.
QueryOrders(S) ==
    {o \in [1..Cardinality(S) -> S] : \A i, j \in DOMAIN o : i # j => o[i] # o[j]}

despawn_explosion ==
    /\ Runs("despawn_explosion")
    /\ \E order \in QueryOrders(LiveExplosions(explosions)) :
         LET st == DespawnLoop(order, <<explosions, commands>>)
         IN  /\ explosions' = st[1]
             /\ commands' = st[2]
    /\ UNCHANGED <<dt, enemy, food, player, spawners, glove, mouse, collisionEvents,
                   punchCollisions, startExplodingEvents, spawnEvents, punchHits>>

\* A strength that does not fall off with the distance.
ExplosionStrength_Flat(d, r) == EXPLOSION_FORCE

\* strength: EXPLOSION_FORCE * (1 - clamp(distance / radius, 0, 1)), in whole
\* units of impulse.
ExplosionStrength(d, r) == (EXPLOSION_FORCE * (r - Max(0, Min(d, r)))) \div r

\* direction * strength of one explosion on a target at targetPos, zero out of
\* the radius; normalize_or_zero gives no direction at the centre.
ExplosionImpulse(ex, targetPos) ==
    IF Abs(targetPos - ex.pos) <= ex.size
    THEN Sign(targetPos - ex.pos) * ExplosionStrength(Abs(targetPos - ex.pos), ex.size)
    ELSE 0

RECURSIVE ExplosionImpulses(_, _)
ExplosionImpulses(S, targetPos) ==
    IF S = {} THEN 0
    ELSE LET x == CHOOSE y \in S : TRUE
         IN  ExplosionImpulse(explosions[x], targetPos)
               + ExplosionImpulses(S \ {x}, targetPos)

\* Every entity with a Transform and an ExternalImpulse that is no Explosion:
\* the creatures and the player.
explosion_force_system ==
    /\ Runs("explosion_force_system")
    /\ enemy' = [e \in EnemyIds |->
                   IF enemy[e].alive
                   THEN [enemy[e] EXCEPT !.impulse =
                           @ + ExplosionImpulses(LiveExplosions(explosions), enemy[e].pos)]
                   ELSE enemy[e]]
    /\ player' = IF player.alive
                 THEN [player EXCEPT !.impulse =
                         @ + ExplosionImpulses(LiveExplosions(explosions), player.pos)]
                 ELSE player
    /\ UNCHANGED <<dt, food, explosions, spawners, glove, mouse, collisionEvents,
                   punchCollisions, startExplodingEvents, spawnEvents, commands,
                   punchHits>>

\* ------------------------------------------------------------ player.rs

\* An explosion that reaches the player while the cooldown has finished and
\* health is left.
DamagePlayerApplies_NoCooldown(pl, x) ==
    /\ explosions[x].alive
    /\ Abs(pl.pos - explosions[x].pos) <= player_radius + explosions[x].size
    /\ pl.health > 0

DamagePlayerApplies(pl, x) ==
    /\ explosions[x].alive
    /\ Abs(pl.pos - explosions[x].pos) <= player_radius + explosions[x].size
    /\ pl.cooldown.finished
    /\ pl.health > 0

\* The loop over the explosions: the first that applies takes one health,
\* resets the cooldown and ends the loop.
DamagePlayer(pl) ==
    IF \E x \in ExplosionIds : DamagePlayerApplies(pl, x)
    THEN [pl EXCEPT !.health = @ - 1, !.cooldown = TimerReset(@), !.since = 0]
    ELSE pl

\* A damage system that goes on without a player, as if it stood at the origin.
damage_player_from_explosions_Unguarded ==
    /\ Runs("damage_player_from_explosions")
    /\ player' = DamagePlayer([player EXCEPT !.cooldown = TimerTick(@, dt)])
    /\ UNCHANGED <<dt, enemy, food, explosions, spawners, collisionEvents,
                   startExplodingEvents, spawnEvents, commands, punchVars>>

damage_player_from_explosions ==
    /\ Runs("damage_player_from_explosions")
    /\ player' = IF ~player.alive
                 THEN player
                 ELSE DamagePlayer([player EXCEPT !.cooldown = TimerTick(@, dt)])
    /\ UNCHANGED <<dt, enemy, food, explosions, spawners, collisionEvents,
                   startExplodingEvents, spawnEvents, commands, punchVars>>

\* reset_health: PlayerHealth::default().
reset_health(pl) ==
    [pl EXCEPT !.health = PLAYER_HEALTH,
               !.cooldown = TimerNew(PLAYER_COOLDOWN_MS, FALSE),
               !.since = 0]

\* A game over that is asked for at any health.
GameOverAsked_Always(pl) == TRUE

\* The condition of trigger_game_over.
GameOverAsked(pl) == pl.health = 0

trigger_game_over ==
    /\ Runs("trigger_game_over")
    /\ player' = IF GameOverAsked(player)
                 THEN [player EXCEPT !.next = "GameOver"]
                 ELSE player
    /\ UNCHANGED <<dt, enemy, food, explosions, spawners, collisionEvents,
                   startExplodingEvents, spawnEvents, commands, punchVars>>

\* The click on "Return to Menu" of the game over menu.
return_to_menu ==
    /\ player.screen = "GameOver" /\ player.next = "None"
    /\ player' = [player EXCEPT !.next = "Title"]
    /\ UNCHANGED <<todo, dt, enemy, food, explosions, spawners, collisionEvents,
                   startExplodingEvents, spawnEvents, commands, punchVars>>

\* The state transition at the start of a frame: the requested screen is
\* entered and the request is taken.  The player entity is scoped to
\* Gameplay: it goes when Gameplay is left and is spawned at p when Gameplay
\* is entered, where OnEnter(Screen::Gameplay) runs reset_health.
StateTransition(pl, p) ==
    IF pl.next = "None"
    THEN pl
    ELSE LET entered == [pl EXCEPT !.screen = pl.next, !.next = "None",
                                   !.alive = (pl.next = "Gameplay"),
                                   !.pos = IF pl.next = "Gameplay" THEN p ELSE 0,
                                   !.impulse = 0]
         IN  IF pl.next = "Gameplay" THEN reset_health(entered) ELSE entered

\* ------------------------------------------------------------ command flush

\* The deferred commands on one enemy: remove::<Eating>().insert(Hunting),
\* insert(Exploding::default()) with the duration drawn, despawn.
ApplyEnemyCommands(en, e, cmds, duration) ==
    IF ~en.alive \/ Cmd("despawn_enemy", e, 0) \in cmds
    THEN NoEnemy
    ELSE LET hunting == Cmd("insert_hunting", e, 0) \in cmds
             explodes == \E c \in cmds : c.op = "insert_exploding" /\ c.ent = e
         IN  [en EXCEPT
                !.tags = ((@ \ (IF hunting THEN {"Eating"} ELSE {}))
                            \cup (IF hunting THEN {"Hunting"} ELSE {}))
                            \cup (IF explodes THEN {"Exploding"} ELSE {}),
                !.exploding = IF explodes THEN TimerNew(duration, FALSE) ELSE @]

\* The durations the Exploding inserted on e may have: that of the last insert
\* queued for it, any of those drawn.
InsertedDurations(e, cmds) ==
    LET ds == {c.arg : c \in {d \in cmds : d.op = "insert_exploding" /\ d.ent = e}}
    IN  IF ds = {} THEN {0} ELSE ds

ApplyFoodCommands(fd, f, cmds) ==
    IF ~fd.alive \/ Cmd("despawn_food", f, 0) \in cmds THEN NoFood ELSE fd

\* A Food spawned by a queued spawn: a fresh entity, given an id that is free.
SpawnFoodCommands(fd, cmds) ==
    LET spawns == {c \in cmds : c.op = "spawn_food"}
        free == DOMAIN fd \ LiveFood(fd)
    IN  IF spawns = {} \/ free = {}
        THEN fd
        ELSE LET c == CHOOSE d \in spawns : TRUE
                 f == CHOOSE g \in free : TRUE
             IN  [fd EXCEPT ![f] = NewFood(c.arg)]

\* The Explosion entities after the flush: those despawned are gone, those
\* requested are spawned on ids that are free, in the order of the requests.
SpawnedKind(cmds, kind) == {c \in cmds : c.op = "spawn" /\ c.kind = kind}

RECURSIVE SpawnExplosions(_, _)
SpawnExplosions(ex, cmds) ==
    IF cmds = {} \/ LiveExplosions(ex) = ExplosionIds
    THEN ex
    ELSE LET c == CHOOSE d \in cmds : \A d2 \in cmds : d.idx <= d2.idx
             x == CHOOSE y \in ExplosionIds : ~ex[y].alive
         IN  SpawnExplosions([ex EXCEPT ![x] = NewExplosion(c.arg, c.size)], cmds \ {c})

ApplyExplosionCommands(ex, cmds) ==
    SpawnExplosions([x \in ExplosionIds |->
                       IF Cmd("despawn_explosion", x, 0) \in cmds
                       THEN NoExplosion ELSE ex[x]],
                    SpawnedKind(cmds, "Explosion"))

\* The creatures after the flush of the spawn commands: one spawned on an id
\* that is free.
RECURSIVE SpawnEnemies(_, _)
SpawnEnemies(en, cmds) ==
    IF cmds = {} \/ LiveEnemies(en) = EnemyIds
    THEN en
    ELSE LET c == CHOOSE d \in cmds : \A d2 \in cmds : d.idx <= d2.idx
             e == CHOOSE y \in EnemyIds : ~en[y].alive
         IN  SpawnEnemies([en EXCEPT ![e] = NewEnemy(c.arg)], cmds \ {c})

\* ------------------------------------------------------------ physics

\* What the rigid-body step does between two frames is outside the model: it
\* consumes every ExternalImpulse, may place a dynamic body at any point, and
\* reports a collision start for any pair of touching colliders, in any order
\* and with the two entities either way round.
Touching(en, fd, e, f) ==
    /\ en[e].alive /\ fd[f].alive
    /\ Abs(en[e].pos - fd[f].pos) <= ENEMY_RADIUS + FOOD_RADIUS

FoodContacts(en, fd) ==
    {p \in ((DOMAIN fd) \X (DOMAIN en)) \cup ((DOMAIN en) \X (DOMAIN fd)) :
        \E e \in DOMAIN en, f \in DOMAIN fd :
            /\ p \in {<<e, f>>, <<f, e>>}
            /\ Touching(en, fd, e, f)
            /\ en[e].appetite < MaxAppetite}

CollisionSeqs(S) ==
    {s \in UNION {[1..n -> S] : n \in 0..Cardinality(S)} :
        \A i, j \in DOMAIN s : i # j => {s[i][1], s[i][2]} # {s[j][1], s[j][2]}}

\* ------------------------------------------------------------ feeding frames

\* The systems of the feeding specification: a creature from its spawn, fed
\* until it is full, and started exploding next to the player.
EatSystems ==
    {"eat", "tick_eat_cooldown", "despawn_eaten_food", "spawn_food",
     "start_explode_near_player", "start_exploding_event_handler"}

\* The end of a frame: the deferred commands are applied, then the physics step.
EndFrameEat ==
    /\ todo = {}
    /\ \E duration \in [EnemyIds -> ExplodingDurations \cup {0}],
          place \in [EnemyIds -> Positions] :
         /\ \A e \in EnemyIds : duration[e] \in InsertedDurations(e, commands)
         /\ LET en1 == [e \in EnemyIds |->
                          ApplyEnemyCommands(enemy[e], e, commands, duration[e])]
                fd1 == SpawnFoodCommands(
                          [f \in FoodIds |-> ApplyFoodCommands(food[f], f, commands)],
                          commands)
                en2 == [e \in EnemyIds |->
                          IF en1[e].alive
                          THEN [en1[e] EXCEPT !.impulse = 0, !.pos = place[e]]
                          ELSE en1[e]]
            IN  /\ \A e \in EnemyIds : ~en1[e].alive => place[e] = 0
                /\ enemy' = en2
                /\ food' = fd1
                /\ \E evs \in CollisionSeqs(FoodContacts(en2, fd1)) :
                      collisionEvents' = collisionEvents \o evs
    /\ commands' = {}
    /\ player' = [player EXCEPT !.impulse = 0]
    /\ dt' \in CreatureDeltas
    /\ todo' = EatSystems
    /\ UNCHANGED <<explosions, spawners, startExplodingEvents, spawnEvents, punchVars>>

InitEat ==
    /\ todo = EatSystems
    /\ dt \in CreatureDeltas
    /\ enemy \in [EnemyIds -> {NewEnemy(p) : p \in Positions}]
    /\ food \in [FoodIds -> {NewFood(p) : p \in Positions}]
    /\ player \in {NewPlayer(p) : p \in Positions}
    /\ explosions = [x \in ExplosionIds |-> NoExplosion]
    /\ spawners = [x \in SpawnerIds |-> NoSpawner]
    /\ glove = NoGlove
    /\ mouse = NoMouse
    /\ collisionEvents = <<>>
    /\ punchCollisions = <<>>
    /\ startExplodingEvents = [e \in EnemyIds |-> 0]
    /\ spawnEvents = <<>>
    /\ commands = {}
    /\ punchHits = <<>>

NextEat ==
    \/ eat
    \/ tick_eat_cooldown
    \/ despawn_eaten_food
    \/ spawn_food
    \/ start_explode_near_player
    \/ start_exploding_event_handler
    \/ EndFrameEat

SpecEat == InitEat /\ [][NextEat]_vars

\* ------------------------------------------------------------ hunting frames

\* The systems of the hunting specification: a creature that is full hunts the
\* player, starts exploding next to the player and explodes.
HuntSystems ==
    {"run_to_player", "start_explode_near_player", "start_exploding_event_handler",
     "explode"}

\* Frame times of the hunting specification.
HuntDeltas == {100, 200}

\* A creature as the feeding leaves it when it turns Hunting: full, Hungry and
\* Hunting, its eat cooldown restarted by its last eat, at a food-seeking velocity.
FullEnemy(p, v) ==
    [NewEnemy(p) EXCEPT !.appetite = STOMACH_CAP,
                        !.speed = ENEMY_BASE_SPEED + STOMACH_CAP * ENEMY_SPEED_DELTA,
                        !.tags = {"Hungry", "Hunting"},
                        !.vel = v * ENEMY_MAX_SPEED_BASE * VelScale]

EndFrameHunt ==
    /\ todo = {}
    /\ \E duration \in [EnemyIds -> ExplodingDurations \cup {0}],
          place \in [EnemyIds -> Positions] :
         /\ \A e \in EnemyIds : duration[e] \in InsertedDurations(e, commands)
         /\ LET en1 == [e \in EnemyIds |->
                          ApplyEnemyCommands(enemy[e], e, commands, duration[e])]
            IN  /\ \A e \in EnemyIds : ~en1[e].alive => place[e] = 0
                /\ enemy' = [e \in EnemyIds |->
                               IF en1[e].alive
                               THEN [en1[e] EXCEPT !.impulse = 0, !.pos = place[e]]
                               ELSE en1[e]]
    /\ commands' = {}
    /\ player' = [player EXCEPT !.impulse = 0]
    /\ dt' \in HuntDeltas
    /\ todo' = HuntSystems
    /\ UNCHANGED <<food, explosions, spawners, collisionEvents, startExplodingEvents,
                   spawnEvents, punchVars>>

InitHunt ==
    /\ todo = HuntSystems
    /\ dt \in HuntDeltas
    /\ enemy \in [EnemyIds -> {FullEnemy(p, v) : p \in Positions, v \in {-1, 0, 1}}]
    /\ food = [f \in FoodIds |-> NoFood]
    /\ player \in {NewPlayer(p) : p \in Positions}
    /\ explosions = [x \in ExplosionIds |-> NoExplosion]
    /\ spawners = [x \in SpawnerIds |-> NoSpawner]
    /\ glove = NoGlove
    /\ mouse = NoMouse
    /\ collisionEvents = <<>>
    /\ punchCollisions = <<>>
    /\ startExplodingEvents = [e \in EnemyIds |-> 0]
    /\ spawnEvents = <<>>
    /\ commands = {}
    /\ punchHits = <<>>

NextHunt ==
    \/ run_to_player
    \/ start_explode_near_player
    \/ start_exploding_event_handler
    \/ explode
    \/ EndFrameHunt

SpecHunt == InitHunt /\ [][NextHunt]_vars

\* ------------------------------------------------------------ exploding frames

\* The systems that take a creature to its explosion.
ExplodeSystems ==
    {"start_explode", "start_explode_near_player", "start_exploding_event_handler",
     "explode", "shake_when_explode"}

ExplodeDeltas == {200, 400}

\* A creature that has eaten a times: its speed has grown with every eat, and
\* it is Hunting as well as Hungry once it is full.
FedEnemy(p, v, a) ==
    [NewEnemy(p) EXCEPT !.appetite = a,
                        !.speed = ENEMY_BASE_SPEED + a * ENEMY_SPEED_DELTA,
                        !.tags = IF a >= STOMACH_CAP
                                 THEN {"Hungry", "Hunting"} ELSE {"Hungry"},
                        !.vel = v * ENEMY_MAX_SPEED_BASE * VelScale]

\* The explosions that may be there at a frame: none, one or two of the least
\* size at the first of the Positions.
PassingExplosions ==
    {ex \in [ExplosionIds -> {NoExplosion, NewExplosion(0, EXPLOSION_SIZE_BASE)}] :
        ex["x2"].alive => ex["x1"].alive}

\* The appetites a creature is met with: none, some, full, and beyond.
FedAppetites == {0, 1, STOMACH_CAP, MaxAppetite}

\* Where the player stands: at the first or the last of the Positions.
PlayerStands == {0, 100}

EndFrameExplode ==
    /\ todo = {}
    /\ \E duration \in [EnemyIds -> ExplodingDurations \cup {0}],
          place \in [EnemyIds -> Positions] :
         /\ \A e \in EnemyIds : duration[e] \in InsertedDurations(e, commands)
         /\ LET en1 == [e \in EnemyIds |->
                          ApplyEnemyCommands(enemy[e], e, commands, duration[e])]
            IN  /\ \A e \in EnemyIds : ~en1[e].alive => place[e] = 0
                /\ enemy' = [e \in EnemyIds |->
                               IF en1[e].alive
                               THEN [en1[e] EXCEPT !.impulse = 0, !.pos = place[e]]
                               ELSE en1[e]]
    /\ dt' \in ExplodeDeltas
    /\ \E ex \in PassingExplosions : explosions' = TimeAdvances(ex, dt')
    /\ commands' = {}
    /\ todo' = ExplodeSystems
    /\ UNCHANGED <<food, player, spawners, collisionEvents, startExplodingEvents,
                   spawnEvents, punchVars>>

InitExplode ==
    /\ todo = ExplodeSystems
    /\ dt \in ExplodeDeltas
    /\ enemy \in [EnemyIds -> {FedEnemy(p, v, a) :
                                 p \in Positions, v \in {0, 1}, a \in FedAppetites}]
    /\ food = [f \in FoodIds |-> NoFood]
    /\ player \in {NewPlayer(p) : p \in PlayerStands}
    /\ explosions \in PassingExplosions
    /\ spawners = [x \in SpawnerIds |-> NoSpawner]
    /\ glove = NoGlove
    /\ mouse = NoMouse
    /\ collisionEvents = <<>>
    /\ punchCollisions = <<>>
    /\ startExplodingEvents = [e \in EnemyIds |-> 0]
    /\ spawnEvents = <<>>
    /\ commands = {}
    /\ punchHits = <<>>

NextExplode ==
    \/ start_explode
    \/ start_explode_near_player
    \/ start_exploding_event_handler
    \/ explode
    \/ shake_when_explode
    \/ EndFrameExplode

SpecExplode == InitExplode /\ [][NextExplode]_vars

\* The creatures whose end is followed: moving, unfed or full and Hunting.
InitFuse ==
    /\ InitExplode
    /\ \A e \in EnemyIds :
          enemy[e].vel # 0 /\ enemy[e].appetite \in {0, STOMACH_CAP}

\* The frames go on: the schedule runs every system of a frame and then the
\* next frame, for as long as the Gameplay screen lasts.
SpecFuse == InitFuse /\ [][NextExplode]_vars /\ WF_vars(NextExplode)

\* ------------------------------------------------------------ seeking frames

\* The systems that steer a creature: to the food, to the player.
SeekSystems == {"run_to_food", "run_to_player"}

SeekDeltas == {50, 100}

\* Two Food entities, so that one can be nearer than the other.
SeekFoodIds == {"f1", "f2"}

\* Where the foods lie and where the creature is found at a frame: on a food,
\* nearer to one food than to the other, and midway between the two.
SeekFoodSpots == {0, 100}
SeekPositions == {0, 10, 50}

\* The foods that may be there at a frame: eaten and spawned between frames.
SeekFoods == [SeekFoodIds -> {NoFood} \cup {NewFood(p) : p \in SeekFoodSpots}]

\* The creatures the steering meets: seeking food, Hunting, and either of the
\* two set Exploding.
SeekEnemies ==
    LET fed == {FedEnemy(p, v, a) :
                  p \in SeekPositions, v \in {0, 1}, a \in {0, STOMACH_CAP}}
    IN  fed \cup {[en EXCEPT !.tags = @ \cup {"Exploding"},
                             !.exploding = TimerNew(EXPLODING_MIN_MS, FALSE)] :
                    en \in fed}

EndFrameSeek ==
    /\ todo = {}
    /\ \E place \in [EnemyIds -> SeekPositions] :
         enemy' = [e \in EnemyIds |->
                     IF enemy[e].alive
                     THEN [enemy[e] EXCEPT !.impulse = 0, !.pos = place[e]]
                     ELSE enemy[e]]
    /\ food' \in SeekFoods
    /\ dt' \in SeekDeltas
    /\ todo' = SeekSystems
    /\ UNCHANGED <<player, explosions, spawners, collisionEvents,
                   startExplodingEvents, spawnEvents, commands, punchVars>>

InitSeek ==
    /\ todo = SeekSystems
    /\ dt \in SeekDeltas
    /\ enemy \in [EnemyIds -> SeekEnemies]
    /\ food \in SeekFoods
    /\ player \in {NewPlayer(p) : p \in PlayerStands}
    /\ explosions = [x \in ExplosionIds |-> NoExplosion]
    /\ spawners = [x \in SpawnerIds |-> NoSpawner]
    /\ glove = NoGlove
    /\ mouse = NoMouse
    /\ collisionEvents = <<>>
    /\ punchCollisions = <<>>
    /\ startExplodingEvents = [e \in EnemyIds |-> 0]
    /\ spawnEvents = <<>>
    /\ commands = {}
    /\ punchHits = <<>>

NextSeek ==
    \/ run_to_food
    \/ run_to_player
    \/ EndFrameSeek

SpecSeek == InitSeek /\ [][NextSeek]_vars

\* ------------------------------------------------------------ player frames

\* The systems that look for the one player, and the reader of the events one
\* of them writes.
PlayerSystems ==
    {"run_to_player", "start_explode_near_player", "start_exploding_event_handler",
     "damage_player_from_explosions", "move_cursor"}

\* One frame time, long enough for the damage cooldown and for a whole punch.
PlayerDeltas == {1000}

\* The explosions that may be there at a frame: none, one or two of the least
\* size at the first of the Positions, where they reach a player at the first
\* of the PlayerStands and not one at the last.
HarmfulExplosions ==
    {ex \in [ExplosionIds -> {NoExplosion, NewExplosion(0, EXPLOSION_SIZE_BASE)}] :
        ex["x2"].alive => ex["x1"].alive}

EndFramePlayer ==
    /\ todo = {}
    /\ \E duration \in [EnemyIds -> ExplodingDurations \cup {0}],
          place \in [EnemyIds -> PlayerStands] :
         /\ \A e \in EnemyIds : duration[e] \in InsertedDurations(e, commands)
         /\ LET en1 == [e \in EnemyIds |->
                          ApplyEnemyCommands(enemy[e], e, commands, duration[e])]
            IN  /\ \A e \in EnemyIds : ~en1[e].alive => place[e] = 0
                /\ enemy' = [e \in EnemyIds |->
                               IF en1[e].alive
                               THEN [en1[e] EXCEPT !.impulse = 0, !.pos = place[e]]
                               ELSE en1[e]]
    /\ commands' = {}
    /\ dt' \in PlayerDeltas
    /\ \E p \in PlayerStands :
         player' = PlayerTimeAdvances(
                      [player EXCEPT !.impulse = 0,
                                     !.pos = IF player.alive THEN p ELSE @], dt')
    /\ explosions' \in HarmfulExplosions
    /\ todo' = PlayerSystems
    /\ UNCHANGED <<food, spawners, glove, mouse, collisionEvents, punchCollisions,
                   startExplodingEvents, spawnEvents, punchHits>>

InitPlayer ==
    /\ todo = PlayerSystems
    /\ dt \in PlayerDeltas
    /\ enemy \in [EnemyIds -> {FullEnemy(p, 0) : p \in PlayerStands}]
    /\ food = [f \in FoodIds |-> NoFood]
    /\ player \in {PlayerTimeAdvances(pl, dt) :
                     pl \in {NoPlayer} \cup {NewPlayer(p) : p \in PlayerStands}}
    /\ explosions \in HarmfulExplosions
    /\ spawners = [x \in SpawnerIds |-> NoSpawner]
    /\ glove = [NewGlove(0, 1) EXCEPT !.is_punching = TRUE]
    /\ mouse = [just_pressed |-> FALSE, coords |-> 100]
    /\ collisionEvents = <<>>
    /\ punchCollisions = <<>>
    /\ startExplodingEvents = [e \in EnemyIds |-> 0]
    /\ spawnEvents = <<>>
    /\ commands = {}
    /\ punchHits = <<>>

NextPlayer ==
    \/ run_to_player
    \/ start_explode_near_player
    \/ start_exploding_event_handler
    \/ damage_player_from_explosions
    \/ move_cursor
    \/ EndFramePlayer

SpecPlayer == InitPlayer /\ [][NextPlayer]_vars

\* ------------------------------------------------------------ sharing frames

\* The systems that read the events naming creatures and food, and the
\* despawn of the food that is eaten.
ShareSystems ==
    {"eat", "tick_eat_cooldown", "despawn_eaten_food",
     "start_exploding_event_handler"}

\* One frame time: the eat cooldown.
ShareDeltas == {EAT_COOLDOWN_MS}

\* Two creatures, so that both can collide with the one food.
ShareEnemyIds == {"e1", "e2"}

\* Where the creatures are: on the food and next to it, in contact both.
SharePositions == {0, 10}

\* At most so many collision starts are reported in one frame.
MaxEvents == 2

\* The creatures the events may name: despawned, or fresh from the spawn with
\* the eat cooldown running or finished.
ShareEnemies ==
    {NoEnemy} \cup
    {[NewEnemy(p) EXCEPT !.eatTimer = t] :
        p \in SharePositions,
        t \in {TimerNew(EAT_COOLDOWN_MS, FALSE),
               TimerTick(TimerNew(EAT_COOLDOWN_MS, FALSE), EAT_COOLDOWN_MS)}}

\* The pairs a collision start may name: two different entities in contact,
\* creatures and food alike.  An event names an entity by its id, and
\* nothing ties the id to a live entity when the event is read: the entity
\* may be despawned by then.
ShareContacts(en, fd) ==
    LET ids == DOMAIN en \cup DOMAIN fd
        at(x) == IF x \in DOMAIN en THEN en[x].pos ELSE fd[x].pos
        radius(x) == IF x \in DOMAIN en THEN ENEMY_RADIUS ELSE FOOD_RADIUS
    IN  {p \in ids \X ids :
           p[1] # p[2] /\ Abs(at(p[1]) - at(p[2])) <= radius(p[1]) + radius(p[2])}

ShareSeqs(S) ==
    {s \in UNION {[1..n -> S] : n \in 0..MaxEvents} :
        \A i, j \in DOMAIN s : i # j => {s[i][1], s[i][2]} # {s[j][1], s[j][2]}}

EndFrameShare ==
    /\ todo = {}
    /\ \E duration \in [DOMAIN enemy -> ExplodingDurations \cup {0}] :
         /\ \A e \in DOMAIN enemy : duration[e] \in InsertedDurations(e, commands)
         /\ LET en1 == [e \in DOMAIN enemy |->
                          ApplyEnemyCommands(enemy[e], e, commands, duration[e])]
                en2 == [e \in DOMAIN enemy |->
                          IF en1[e].alive
                          THEN [en1[e] EXCEPT !.impulse = 0] ELSE en1[e]]
                fd1 == [f \in DOMAIN food |-> ApplyFoodCommands(food[f], f, commands)]
            IN  /\ enemy' = en2
                /\ food' = fd1
                /\ \E evs \in ShareSeqs(ShareContacts(en2, fd1)) :
                      collisionEvents' = collisionEvents \o evs
    /\ commands' = {}
    /\ dt' \in ShareDeltas
    /\ todo' = ShareSystems
    /\ UNCHANGED <<player, explosions, spawners, startExplodingEvents, spawnEvents,
                   punchVars>>

InitShare ==
    /\ todo = ShareSystems
    /\ dt \in ShareDeltas
    /\ enemy \in [ShareEnemyIds -> ShareEnemies]
    /\ food \in [FoodIds -> {NoFood, NewFood(0)}]
    /\ player = NewPlayer(100)
    /\ explosions = [x \in ExplosionIds |-> NoExplosion]
    /\ spawners = [x \in SpawnerIds |-> NoSpawner]
    /\ glove = NoGlove
    /\ mouse = NoMouse
    /\ collisionEvents \in ShareSeqs(ShareContacts(enemy, food))
    /\ punchCollisions = <<>>
    /\ startExplodingEvents \in [ShareEnemyIds -> {0, 1}]
    /\ spawnEvents = <<>>
    /\ commands = {}
    /\ punchHits = <<>>

NextShare ==
    \/ eat
    \/ tick_eat_cooldown
    \/ despawn_eaten_food
    \/ start_exploding_event_handler
    \/ EndFrameShare

SpecShare == InitShare /\ [][NextShare]_vars

\* ------------------------------------------------------------ pantry frames

\* The systems of the pantry specification: Food is spawned up to the limit
\* while one creature eats of it.
PantrySystems == {"spawn_food", "despawn_eaten_food", "eat", "tick_eat_cooldown"}

\* One Food entity more than MAX_FOOD, so that the limit decides and not the
\* number of entities the model holds.
PantryIds ==
    {"f1", "f2", "f3", "f4", "f5", "f6", "f7", "f8", "f9", "f10", "f11"}

\* The Food entities that exist at the start, out of the creature's reach.
PantryStock == {"f1", "f2", "f3", "f4", "f5", "f6", "f7", "f8"}

EndFramePantry ==
    /\ todo = {}
    /\ LET en1 == [e \in DOMAIN enemy |->
                     ApplyEnemyCommands(enemy[e], e, commands, 0)]
           en2 == [e \in DOMAIN enemy |->
                     IF en1[e].alive THEN [en1[e] EXCEPT !.impulse = 0] ELSE en1[e]]
           fd1 == SpawnFoodCommands(
                     [f \in DOMAIN food |-> ApplyFoodCommands(food[f], f, commands)],
                     commands)
       IN  /\ enemy' = en2
           /\ food' = fd1
           /\ \E evs \in CollisionSeqs(FoodContacts(en2, fd1)) :
                 collisionEvents' = collisionEvents \o evs
    /\ commands' = {}
    /\ dt' \in ShareDeltas
    /\ todo' = PantrySystems
    /\ UNCHANGED <<player, explosions, spawners, startExplodingEvents, spawnEvents,
                   punchVars>>

InitPantry ==
    /\ todo = PantrySystems
    /\ dt \in ShareDeltas
    /\ enemy = [e \in EnemyIds |-> NewEnemy(0)]
    /\ food = [f \in PantryIds |-> IF f \in PantryStock THEN NewFood(100) ELSE NoFood]
    /\ player = NewPlayer(100)
    /\ explosions = [x \in ExplosionIds |-> NoExplosion]
    /\ spawners = [x \in SpawnerIds |-> NoSpawner]
    /\ glove = NoGlove
    /\ mouse = NoMouse
    /\ collisionEvents = <<>>
    /\ punchCollisions = <<>>
    /\ startExplodingEvents = [e \in EnemyIds |-> 0]
    /\ spawnEvents = <<>>
    /\ commands = {}
    /\ punchHits = <<>>

NextPantry ==
    \/ spawn_food
    \/ despawn_eaten_food
    \/ eat
    \/ tick_eat_cooldown
    \/ EndFramePantry

SpecPantry == InitPantry /\ [][NextPantry]_vars

\* ------------------------------------------------------------ cooldown frames

\* The systems of the cooldown specification: one creature among two Foods.
GateSystems == {"eat", "tick_eat_cooldown", "despawn_eaten_food"}

\* Where the physics step may leave the creature: on the Foods or away from them.
GatePositions == {0, 100}

EndFrameGate ==
    /\ todo = {}
    /\ dt' \in CreatureDeltas
    /\ \E place \in GatePositions :
         LET en1 == [e \in DOMAIN enemy |->
                       ApplyEnemyCommands(enemy[e], e, commands, 0)]
             en2 == [e \in DOMAIN enemy |->
                       IF en1[e].alive
                       THEN [en1[e] EXCEPT !.impulse = 0, !.pos = place]
                       ELSE en1[e]]
             fd1 == [f \in DOMAIN food |-> ApplyFoodCommands(food[f], f, commands)]
         IN  /\ enemy' = EnemyTimeAdvances(en2, dt')
             /\ food' = fd1
             /\ \E evs \in ShareSeqs(ShareContacts(en2, fd1)) :
                   collisionEvents' = collisionEvents \o evs
    /\ commands' = {}
    /\ todo' = GateSystems
    /\ UNCHANGED <<player, explosions, spawners, startExplodingEvents, spawnEvents,
                   punchVars>>

InitGate ==
    /\ todo = GateSystems
    /\ dt \in CreatureDeltas
    /\ enemy \in [EnemyIds -> {NewEnemy(p) : p \in GatePositions}]
    /\ food = [f \in SeekFoodIds |-> NewFood(0)]
    /\ player = NewPlayer(100)
    /\ explosions = [x \in ExplosionIds |-> NoExplosion]
    /\ spawners = [x \in SpawnerIds |-> NoSpawner]
    /\ glove = NoGlove
    /\ mouse = NoMouse
    /\ collisionEvents = <<>>
    /\ punchCollisions = <<>>
    /\ startExplodingEvents = [e \in EnemyIds |-> 0]
    /\ spawnEvents = <<>>
    /\ commands = {}
    /\ punchHits = <<>>

NextGate ==
    \/ eat
    \/ tick_eat_cooldown
    \/ despawn_eaten_food
    \/ EndFrameGate

SpecGate == InitGate /\ [][NextGate]_vars

\* ------------------------------------------------------------ health frames

\* The system that takes the player's health.
HealthSystems == {"damage_player_from_explosions"}

\* Frame times that divide the damage cooldown and that do not.
HealthDeltas == {400, 1000}

EndFrameHealth ==
    /\ todo = {}
    /\ dt' \in HealthDeltas
    /\ \E p \in PlayerStands :
         player' = PlayerTimeAdvances([player EXCEPT !.impulse = 0, !.pos = p], dt')
    /\ explosions' \in HarmfulExplosions
    /\ todo' = HealthSystems
    /\ UNCHANGED <<enemy, food, spawners, collisionEvents, startExplodingEvents,
                   spawnEvents, commands, punchVars>>

InitHealth ==
    /\ todo = HealthSystems
    /\ dt \in HealthDeltas
    /\ enemy = [e \in EnemyIds |-> NoEnemy]
    /\ food = [f \in FoodIds |-> NoFood]
    /\ player \in {PlayerTimeAdvances(NewPlayer(p), dt) : p \in PlayerStands}
    /\ explosions \in HarmfulExplosions
    /\ spawners = [x \in SpawnerIds |-> NoSpawner]
    /\ glove = NoGlove
    /\ mouse = NoMouse
    /\ collisionEvents = <<>>
    /\ punchCollisions = <<>>
    /\ startExplodingEvents = [e \in EnemyIds |-> 0]
    /\ spawnEvents = <<>>
    /\ commands = {}
    /\ punchHits = <<>>

NextHealth ==
    \/ damage_player_from_explosions
    \/ EndFrameHealth

SpecHealth == InitHealth /\ [][NextHealth]_vars

\* ------------------------------------------------------------ game over frames

\* The systems of the game over specification.
OverSystems == {"trigger_game_over", "damage_player_from_explosions"}

\* The end of a frame of Gameplay and the state transition of the next: with
\* a request pending Gameplay is left, its explosions go with it, and no
\* system of Gameplay runs in the screen entered.
EndFrameOver ==
    /\ todo = {} /\ player.screen = "Gameplay"
    /\ dt' \in HealthDeltas
    /\ IF player.next = "None"
       THEN /\ \E p \in PlayerStands :
                 player' = PlayerTimeAdvances(
                              [player EXCEPT !.impulse = 0, !.pos = p], dt')
            /\ explosions' \in HarmfulExplosions
            /\ todo' = OverSystems
       ELSE /\ player' = StateTransition(player, 0)
            /\ explosions' = [x \in ExplosionIds |-> NoExplosion]
            /\ todo' = {}
    /\ UNCHANGED <<enemy, food, spawners, collisionEvents, startExplodingEvents,
                   spawnEvents, commands, punchVars>>

\* The Title screen asks for Gameplay: a new game is started.
StartGame ==
    /\ player.screen = "Title" /\ player.next = "None"
    /\ player' = [player EXCEPT !.next = "Gameplay"]
    /\ UNCHANGED <<todo, dt, enemy, food, explosions, spawners, collisionEvents,
                   startExplodingEvents, spawnEvents, commands, punchVars>>

\* A frame outside Gameplay: the state transition alone.
EnterScreen ==
    /\ player.screen # "Gameplay" /\ player.next # "None"
    /\ dt' \in HealthDeltas
    /\ \E p \in PlayerStands :
         player' = IF player.next = "Gameplay"
                   THEN PlayerTimeAdvances(StateTransition(player, p), dt')
                   ELSE StateTransition(player, 0)
    /\ todo' = IF player.next = "Gameplay" THEN OverSystems ELSE {}
    /\ UNCHANGED <<enemy, food, explosions, spawners, collisionEvents,
                   startExplodingEvents, spawnEvents, commands, punchVars>>

InitOver ==
    /\ todo = OverSystems
    /\ dt \in HealthDeltas
    /\ enemy = [e \in EnemyIds |-> NoEnemy]
    /\ food = [f \in FoodIds |-> NoFood]
    /\ player \in {PlayerTimeAdvances(NewPlayer(p), dt) : p \in PlayerStands}
    /\ explosions \in HarmfulExplosions
    /\ spawners = [x \in SpawnerIds |-> NoSpawner]
    /\ glove = NoGlove
    /\ mouse = NoMouse
    /\ collisionEvents = <<>>
    /\ punchCollisions = <<>>
    /\ startExplodingEvents = [e \in EnemyIds |-> 0]
    /\ spawnEvents = <<>>
    /\ commands = {}
    /\ punchHits = <<>>

NextOver ==
    \/ trigger_game_over
    \/ damage_player_from_explosions
    \/ EndFrameOver
    \/ return_to_menu
    \/ StartGame
    \/ EnterScreen

SpecOver == InitOver /\ [][NextOver]_vars

\* ------------------------------------------------------------ life frames

\* The systems that take a creature through its behaviour states: seeking
\* food, eating its fill, Hunting, Exploding, gone.
LifeSystems ==
    {"eat", "run_to_food", "run_to_player", "start_explode_near_player",
     "start_exploding_event_handler", "explode"}

\* One frame time: the steering reaches its target velocity in a frame and
\* the Exploding timer runs for two frames at the least.
LifeDeltas == {400}

\* Where the creature is found at a frame: on the food, and on the far side.
LifePositions == {0, 100}

\* The last appetite before the cap.
LifeAppetite == STOMACH_CAP - 1

EndFrameLife ==
    /\ todo = {}
    /\ \E duration \in [EnemyIds -> ExplodingDurations \cup {0}],
          place \in [EnemyIds -> LifePositions] :
         /\ \A e \in EnemyIds : duration[e] \in InsertedDurations(e, commands)
         /\ LET en1 == [e \in EnemyIds |->
                          ApplyEnemyCommands(enemy[e], e, commands, duration[e])]
                en2 == [e \in EnemyIds |->
                          IF en1[e].alive
                          THEN [en1[e] EXCEPT !.impulse = 0, !.pos = place[e]]
                          ELSE en1[e]]
            IN  /\ \A e \in EnemyIds : ~en1[e].alive => place[e] = 0
                /\ enemy' = en2
                /\ \E evs \in CollisionSeqs(FoodContacts(en2, food)) :
                      collisionEvents' = collisionEvents \o evs
    /\ commands' = {}
    /\ player' = [player EXCEPT !.impulse = 0]
    /\ dt' \in LifeDeltas
    /\ todo' = LifeSystems
    /\ UNCHANGED <<food, explosions, spawners, startExplodingEvents, spawnEvents,
                   punchVars>>

InitLife ==
    /\ todo = LifeSystems
    /\ dt \in LifeDeltas
    /\ enemy \in [EnemyIds ->
                    {[FedEnemy(p, 0, LifeAppetite) EXCEPT
                        !.eatTimer = TimerTick(@, EAT_COOLDOWN_MS)] :
                       p \in LifePositions}]
    /\ food \in [FoodIds -> {NewFood(0)}]
    /\ player \in {NewPlayer(p) : p \in PlayerStands}
    /\ explosions = [x \in ExplosionIds |-> NoExplosion]
    /\ spawners = [x \in SpawnerIds |-> NoSpawner]
    /\ glove = NoGlove
    /\ mouse = NoMouse
    /\ collisionEvents \in CollisionSeqs(FoodContacts(enemy, food))
    /\ punchCollisions = <<>>
    /\ startExplodingEvents = [e \in EnemyIds |-> 0]
    /\ spawnEvents = <<>>
    /\ commands = {}
    /\ punchHits = <<>>

NextLife ==
    \/ eat
    \/ run_to_food
    \/ run_to_player
    \/ start_explode_near_player
    \/ start_exploding_event_handler
    \/ explode
    \/ EndFrameLife

SpecLife == InitLife /\ [][NextLife]_vars

\* ------------------------------------------------------------ punching frames

PunchSystems ==
    {"punch_input_system", "move_cursor", "punch_hit_system",
     "manual_punch_check_system", "spawn_event_handler"}

\* Frame times of the punching specification: a punch lasts PUNCH_MS; a frame
\* of 40 ms is a fifth of it, a frame of 150 ms a hitch that takes a punch from
\* its extension to its end.
PunchDeltas == {40, 150}

\* Where the creature is found at a frame, the player standing at 0: within
\* the glove's stroke, or out of reach.
PunchPositions == {50, 70, 300}

\* Where the mouse points.
MouseCoords == {-100, 100}

PunchTargets == EnemyIds \cup FoodIds

\* The collisions the glove, a sensor, may start with the targets it overlaps.
GloveContacts(g, en, fd) ==
    {p \in ({"glove"} \X PunchTargets) \cup (PunchTargets \X {"glove"}) :
        \E t \in PunchTargets :
            /\ p \in {<<"glove", t>>, <<t, "glove">>}
            /\ g.alive
            /\ \/ /\ t \in EnemyIds /\ en[t].alive
                  /\ Abs(g.pos - en[t].pos) <= GLOVE_RADIUS + ENEMY_RADIUS
               \/ /\ t \in FoodIds /\ fd[t].alive
                  /\ Abs(g.pos - fd[t].pos) <= GLOVE_RADIUS + FOOD_RADIUS}

EndFramePunch ==
    /\ todo = {}
    /\ \E place \in [EnemyIds -> PunchPositions] :
         enemy' = [e \in EnemyIds |->
                     IF enemy[e].alive
                     THEN [enemy[e] EXCEPT !.impulse = 0, !.pos = place[e]]
                     ELSE enemy[e]]
    /\ punchCollisions' \in CollisionSeqs(GloveContacts(glove, enemy', food))
    /\ mouse' \in [just_pressed : BOOLEAN, coords : MouseCoords]
    /\ commands' = {}
    /\ dt' \in PunchDeltas
    /\ todo' = PunchSystems
    /\ UNCHANGED <<food, player, explosions, spawners, glove, collisionEvents,
                   startExplodingEvents, spawnEvents, punchHits>>

InitPunch ==
    /\ todo = PunchSystems
    /\ dt \in PunchDeltas
    /\ enemy \in [EnemyIds -> {NewEnemy(p) : p \in PunchPositions}]
    /\ food \in [FoodIds -> {NewFood(p) : p \in PunchPositions}]
    /\ player = NewPlayer(0)
    /\ explosions = [x \in ExplosionIds |-> NoExplosion]
    /\ spawners = [x \in SpawnerIds |-> NoSpawner]
    /\ glove \in {NewGlove(0, d) : d \in {-1, 1}}
    /\ mouse \in [just_pressed : BOOLEAN, coords : MouseCoords]
    /\ collisionEvents = <<>>
    /\ punchCollisions = <<>>
    /\ startExplodingEvents = [e \in EnemyIds |-> 0]
    /\ spawnEvents = <<>>
    /\ commands = {}
    /\ punchHits = [t \in PunchTargets |-> 0]

NextPunch ==
    \/ punch_input_system
    \/ move_cursor
    \/ punch_hit_system
    \/ manual_punch_check_system
    \/ spawn_event_handler
    \/ EndFramePunch

SpecPunch == InitPunch /\ [][NextPunch]_vars

\* The punch on its own: the press, the glove's stroke, the proximity check
\* that fills the hit-set, and the reader of the sound requests, with one
\* creature that stays within the stroke.
JabSystems ==
    {"punch_input_system", "move_cursor", "manual_punch_check_system",
     "spawn_event_handler"}

EndFrameJab ==
    /\ todo = {}
    /\ enemy' = [e \in EnemyIds |->
                   IF enemy[e].alive THEN [enemy[e] EXCEPT !.impulse = 0]
                   ELSE enemy[e]]
    /\ mouse' \in [just_pressed : BOOLEAN, coords : MouseCoords]
    /\ commands' = {}
    /\ dt' \in PunchDeltas
    /\ todo' = JabSystems
    /\ UNCHANGED <<food, player, explosions, spawners, glove, collisionEvents,
                   punchCollisions, startExplodingEvents, spawnEvents, punchHits>>

InitJab ==
    /\ todo = JabSystems
    /\ dt \in PunchDeltas
    /\ enemy = [e \in EnemyIds |-> NewEnemy(50)]
    /\ food = [f \in FoodIds |-> NoFood]
    /\ player = NewPlayer(0)
    /\ explosions = [x \in ExplosionIds |-> NoExplosion]
    /\ spawners = [x \in SpawnerIds |-> NoSpawner]
    /\ glove \in {NewGlove(0, d) : d \in {-1, 1}}
    /\ mouse \in [just_pressed : BOOLEAN, coords : MouseCoords]
    /\ collisionEvents = <<>>
    /\ punchCollisions = <<>>
    /\ startExplodingEvents = [e \in EnemyIds |-> 0]
    /\ spawnEvents = <<>>
    /\ commands = {}
    /\ punchHits = [t \in PunchTargets |-> 0]

NextJab ==
    \/ punch_input_system
    \/ move_cursor
    \/ manual_punch_check_system
    \/ spawn_event_handler
    \/ EndFrameJab

\* The frames go on for as long as the Gameplay screen lasts.
SpecJab == InitJab /\ [][NextJab]_vars /\ WF_vars(NextJab)

\* ------------------------------------------------------------ explosion frames

ExplosionSystems ==
    {"spawn_event_handler", "explosion_animation", "despawn_explosion",
     "explosion_force_system"}

ExplosionDeltas == {50, 100}

\* The sizes explode requests: the least and the greatest.
ExplosionSizes ==
    {EXPLOSION_SIZE_BASE, EXPLOSION_SIZE_BASE + STOMACH_CAP * EXPLOSION_SIZE_STEP}

\* Where explosions are requested, and where the bodies are found: at the
\* centre, at half a radius, on the rim, within and beyond it, on either side.
ExplosionCentres == {0, 5}
TargetPositions == {0, 35, 65, 70, 130, -35, 200}

ExplosionRequests ==
    {[kind |-> "Explosion", pos |-> p, size |-> z] :
        p \in ExplosionCentres, z \in ExplosionSizes}

EndFrameExplosion ==
    /\ todo = {}
    /\ dt' \in ExplosionDeltas
    /\ explosions' = TimeAdvances(ApplyExplosionCommands(explosions, commands), dt')
    /\ \E place \in [EnemyIds -> TargetPositions] :
         enemy' = [e \in EnemyIds |->
                     IF enemy[e].alive
                     THEN [enemy[e] EXCEPT !.impulse = 0, !.pos = place[e]]
                     ELSE enemy[e]]
    /\ \E p \in TargetPositions : player' = [player EXCEPT !.impulse = 0, !.pos = p]
    /\ commands' = {}
    /\ todo' = ExplosionSystems
    /\ UNCHANGED <<food, spawners, glove, mouse, collisionEvents, punchCollisions,
                   startExplodingEvents, spawnEvents, punchHits>>

\* One or two creatures have just exploded: their requests are in the queue.
\* A food item and a spawner stand half a radius from the centre.
InitExplosion ==
    /\ todo = ExplosionSystems
    /\ dt \in ExplosionDeltas
    /\ enemy \in [EnemyIds -> {NewEnemy(p) : p \in TargetPositions}]
    /\ food = [f \in FoodIds |-> NewFood(35)]
    /\ player \in {NewPlayer(p) : p \in TargetPositions}
    /\ explosions = [x \in ExplosionIds |-> NoExplosion]
    /\ spawners = [x \in SpawnerIds |-> NewSpawner(35)]
    /\ glove = NoGlove
    /\ mouse = NoMouse
    /\ collisionEvents = <<>>
    /\ punchCollisions = <<>>
    /\ startExplodingEvents = [e \in EnemyIds |-> 0]
    /\ spawnEvents \in {<<a>> : a \in ExplosionRequests}
                         \cup {<<a, b>> : a \in ExplosionRequests, b \in ExplosionRequests}
    /\ commands = {}
    /\ punchHits = <<>>

NextExplosion ==
    \/ spawn_event_handler
    \/ explosion_animation
    \/ despawn_explosion
    \/ explosion_force_system
    \/ EndFrameExplosion

SpecExplosion == InitExplosion /\ [][NextExplosion]_vars

\* ------------------------------------------------------------ spawner frames

SpawnerSystems ==
    {"spawn_event_handler", "spawn_enemy", "damage_spawners_from_explosions",
     "tick_cooldown_timers"}

SpawnerDeltas == {1000, 2500}

SpawnerPositions == {500}

\* The explosions that may be there at a frame, seen from a spawner at p: one
\* just in reach, one just out of reach.
NearbyExplosions(p) ==
    {NoExplosion,
     NewExplosion(p + SPAWNER_SIZE \div 2 + EXPLOSION_SIZE_BASE, EXPLOSION_SIZE_BASE),
     NewExplosion(p + SPAWNER_SIZE \div 2 + EXPLOSION_SIZE_BASE + 1, EXPLOSION_SIZE_BASE)}

\* The explosions come and go between two frames, as the creatures explode.
\* The spawners were spawned at the end of the frame before the first.
EndFrameSpawner ==
    /\ todo = {}
    /\ enemy' = SpawnEnemies(enemy, SpawnedKind(commands, "Enemy"))
    /\ dt' \in SpawnerDeltas
    /\ \E ex \in [ExplosionIds -> UNION {NearbyExplosions(p) : p \in SpawnerPositions}] :
         explosions' = TimeAdvances(ex, dt')
    /\ spawners' = SpawnerTimeAdvances(spawners, dt')
    /\ commands' = {}
    /\ todo' = SpawnerSystems
    /\ UNCHANGED <<food, player, glove, mouse, collisionEvents,
                   punchCollisions, startExplodingEvents, spawnEvents, punchHits>>

InitSpawner ==
    /\ todo = SpawnerSystems
    /\ dt \in SpawnerDeltas
    /\ enemy = [e \in EnemyIds |-> NoEnemy]
    /\ food = [f \in FoodIds |-> NoFood]
    /\ player = NewPlayer(0)
    /\ explosions = [x \in ExplosionIds |-> NoExplosion]
    /\ spawners \in [SpawnerIds -> {[NewSpawner(p) EXCEPT !.since = dt] :
                                       p \in SpawnerPositions}]
    /\ glove = NoGlove
    /\ mouse = NoMouse
    /\ collisionEvents = <<>>
    /\ punchCollisions = <<>>
    /\ startExplodingEvents = [e \in EnemyIds |-> 0]
    /\ spawnEvents = <<>>
    /\ commands = {}
    /\ punchHits = <<>>

NextSpawner ==
    \/ spawn_event_handler
    \/ spawn_enemy
    \/ damage_spawners_from_explosions
    \/ tick_cooldown_timers
    \/ EndFrameSpawner

SpecSpawner == InitSpawner /\ [][NextSpawner]_vars

\* ------------------------------------------------------------ claims: feeding

BehaviourTags == {"Hungry", "Hunting", "Exploding"}

\* The step of a system: it leaves `todo`.
StepOf(system) == system \in todo /\ system \notin todo'

\* C1: every live creature carries exactly one of the behaviour tags Hungry
\* (SeekingFood), Hunting, Exploding, and never two of them at once.
C1_ExactlyOneBehaviourTag ==
    \A e \in EnemyIds :
        enemy[e].alive => Cardinality(enemy[e].tags \cap BehaviourTags) = 1

\* C2: a creature's appetite stays in 0..STOMACH_CAP, never decreases, and once
\* the creature is Hunting neither its appetite nor its speed multiplier grows.
C2_AppetiteWithinCap ==
    [][\A e \in EnemyIds :
          (enemy[e].alive /\ enemy'[e].alive) =>
             /\ enemy'[e].appetite \in 0..STOMACH_CAP
             /\ enemy'[e].appetite >= enemy[e].appetite
             /\ "Hunting" \in enemy[e].tags =>
                   /\ enemy'[e].appetite = enemy[e].appetite
                   /\ enemy'[e].speed = enemy[e].speed]_vars

\* The first collision event eat reads is between food f and creature e, a
\* SeekingFood creature of appetite 0 and a Food of quantity 1.
ScenarioA(e, f) ==
    /\ StepOf("eat")
    /\ collisionEvents # <<>>
    /\ {Head(collisionEvents)[1], Head(collisionEvents)[2]} = {e, f}
    /\ enemy[e].alive /\ food[f].alive
    /\ enemy[e].tags \cap BehaviourTags = {"Hungry"}
    /\ enemy[e].appetite = 0
    /\ food[f].qty = 1

\* What Scenario A promises of the eat step.
ScenarioAEffect(e, f) ==
    /\ food'[f].qty = 0
    /\ enemy'[e].appetite = 1
    /\ enemy'[e].impulse =
          enemy[e].impulse + Sign(enemy[e].pos - food[f].pos) * BOUNCE_FORCE
    /\ enemy'[e].tags = enemy[e].tags
    /\ Cmd("insert_hunting", e, 0) \notin commands'

\* C8 as claimed: a collision start between a SeekingFood creature of appetite 0
\* and a Food of quantity 1 makes the quantity 0 and the appetite 1, adds the
\* bounce impulse from the food to the creature and leaves it SeekingFood.
C8_ScenarioA_AsClaimed ==
    [][\A e \in EnemyIds, f \in FoodIds : ScenarioA(e, f) => ScenarioAEffect(e, f)]_vars

\* C8 as amended: the same, for a creature whose eat cooldown has finished; and
\* the emptied Food is despawned: despawn_eaten_food queues the despawn of every
\* Food of quantity below 1, and the command flush removes it.
C8_ScenarioA ==
    [][/\ \A e \in EnemyIds, f \in FoodIds :
             (ScenarioA(e, f) /\ enemy[e].eatTimer.finished) => ScenarioAEffect(e, f)
       /\ \A f \in FoodIds :
             (StepOf("despawn_eaten_food") /\ food[f].alive /\ food[f].qty < 1)
                => Cmd("despawn_food", f, 0) \in commands'
       /\ \A f \in FoodIds :
             (todo = {} /\ Cmd("despawn_food", f, 0) \in commands) => ~food'[f].alive
      ]_vars

\* C8's case: the creature has just eaten its first food, which is now empty,
\* and was pushed away from it.
C8_Witness ==
    \E e \in EnemyIds, f \in FoodIds :
        /\ "eat" \notin todo
        /\ enemy[e].alive /\ enemy[e].appetite = 1 /\ enemy[e].impulse # 0
        /\ enemy[e].tags = {"Hungry"}
        /\ food[f].alive /\ food[f].qty = 0

\* C9: a creature is Hunting exactly when an eat has brought its appetite to
\* STOMACH_CAP, and the Hungry tag is removed at that transition: none Hunting
\* below the cap, every full creature Hunting once the commands of the frame of
\* its last eat are applied, and no Hunting creature still Hungry.
C9_HuntingAtCapDropsHungry ==
    \A e \in EnemyIds :
        enemy[e].alive =>
           /\ "Hunting" \in enemy[e].tags => enemy[e].appetite >= STOMACH_CAP
           /\ enemy[e].appetite >= STOMACH_CAP =>
                 ("Hunting" \in enemy[e].tags \/ Cmd("insert_hunting", e, 0) \in commands)
           /\ "Hunting" \in enemy[e].tags => "Hungry" \notin enemy[e].tags

\* C10: food and hunting logic leave an Exploding creature alone: eat changes
\* neither its appetite, speed multiplier and impulse nor the quantity of a
\* food, and run_to_food and run_to_player do not change its velocity.
C10_ExplodingIsImmune ==
    [][\A e \in EnemyIds :
          (enemy[e].alive /\ "Exploding" \in enemy[e].tags) =>
             /\ StepOf("eat") =>
                   /\ enemy'[e].appetite = enemy[e].appetite
                   /\ enemy'[e].speed = enemy[e].speed
                   /\ enemy'[e].impulse = enemy[e].impulse
                   /\ (\A i \in DOMAIN collisionEvents :
                          e \in {collisionEvents[i][1], collisionEvents[i][2]})
                         => food' = food
             /\ (StepOf("run_to_food") \/ StepOf("run_to_player")) =>
                   enemy'[e].vel = enemy[e].vel]_vars

\* ------------------------------------------------------------ claims: start exploding

\* The deferred commands queued on the creature e.
CommandsOn(cmds, e) == {c \in cmds : c.ent = e}

\* C3: start-exploding is idempotent.  A run of the event handler changes
\* nothing of a creature that is already Exploding: its velocity is not halved
\* again and no new Exploding (a restarted, re-drawn timer) is queued for it,
\* whatever order the trigger and the handler ran in.
C3_StartExplodingIdempotent ==
    [][\A e \in EnemyIds :
          (/\ StepOf("start_exploding_event_handler")
           /\ enemy[e].alive
           /\ "Exploding" \in enemy[e].tags)
          => /\ enemy'[e] = enemy[e]
             /\ CommandsOn(commands', e) = CommandsOn(commands, e)]_vars

\* ------------------------------------------------------------ claims: the explosion of a creature

\* The Explosion requests in the queue of spawn events.
ExplosionRequestsIn(events) == {i \in DOMAIN events : events[i].kind = "Explosion"}

\* C11: a creature is despawned only in a tick in which it is Exploding and
\* its exploding timer has finished, and then exactly one Explosion request
\* has been emitted for it, at the position the creature has when it is
\* despawned; explode emits a request only with the despawn of a creature.
C11_DespawnOnlyExploded ==
    [][/\ \A e \in EnemyIds :
            (enemy[e].alive /\ ~enemy'[e].alive)
            => /\ "Exploding" \in enemy[e].tags
               /\ enemy[e].exploding.finished
               /\ Cardinality({i \in ExplosionRequestsIn(spawnEvents) :
                                  spawnEvents[i].pos = enemy[e].pos}) = 1
       /\ Cardinality(ExplosionRequestsIn(spawnEvents'))
            = Cardinality(ExplosionRequestsIn(spawnEvents))
              + Cardinality({e \in EnemyIds :
                               /\ Cmd("despawn_enemy", e, 0) \in commands'
                               /\ Cmd("despawn_enemy", e, 0) \notin commands})]_vars

\* The creatures whose despawn the step queues.
NewlyDespawned ==
    {e \in EnemyIds : /\ Cmd("despawn_enemy", e, 0) \in commands'
                      /\ Cmd("despawn_enemy", e, 0) \notin commands}

\* C12: the size of the Explosion requested for a creature is linear in its
\* final appetite and maps 0..STOMACH_CAP onto 70..110: 70 at appetite 0, 110
\* at STOMACH_CAP, and within 70..110 at every appetite.
C12_ExplosionSizeRange ==
    [][\A e \in NewlyDespawned :
          \A i \in ExplosionRequestsIn(spawnEvents') \ ExplosionRequestsIn(spawnEvents) :
              /\ spawnEvents'[i].size \in 70..110
              /\ enemy[e].appetite <= STOMACH_CAP
                 => spawnEvents'[i].size * STOMACH_CAP
                      = 70 * STOMACH_CAP + enemy[e].appetite * (110 - 70)]_vars

\* ------------------------------------------------------------ claims: punching

\* C4: within one punch activation each target receives at most one punch
\* impulse, the collision-event path and the proximity path counted together.
\* punchHits counts the punch impulses each target got since the press that
\* started the activation.
C4_OnePunchPerActivation ==
    \A t \in PunchTargets : punchHits[t] <= 1

\* Both paths have met the same creature in one frame of the extension phase:
\* the collision path punched it, the proximity path found it in reach.
C4_Witness ==
    /\ {"punch_hit_system", "manual_punch_check_system"} \cap todo = {}
    /\ "move_cursor" \in todo
    /\ ExtensionPhase(glove)
    /\ \E e \in EnemyIds :
         /\ enemy[e].alive
         /\ InGloveReach(glove, enemy[e].pos)
         /\ Abs(enemy[e].impulse) = PUNCH_FORCE
         /\ punchHits[e] = 1

\* ------------------------------------------------------------ claims: explosions

\* The bodies explosion_force_system pushes, where they are, and what a step
\* adds to their impulse.
C5_Targets == LiveEnemies(enemy) \cup {"player"}
C5_Pos(t) == IF t = "player" THEN player.pos ELSE enemy[t].pos
C5_Added(t) ==
    IF t = "player" THEN player'.impulse - player.impulse
    ELSE enemy'[t].impulse - enemy[t].impulse
C5_Dist(x, t) == Abs(C5_Pos(t) - explosions[x].pos)

\* The law of one explosion x on a target t within its radius r, at distance d:
\* the magnitude is EXPLOSION_FORCE * (1 - d/r) to the unit of impulse and
\* points away from the centre, it is 0 at d = r and half the force at
\* d = r/2; at the centre it is atCentre.
C5_Law(x, t, atCentre) ==
    LET r == explosions[x].size
        d == C5_Dist(x, t)
        a == C5_Added(t)
        m == Abs(a)
    IN  d <= r =>
          /\ IF d = 0
             THEN m = atCentre
             ELSE /\ m * r <= EXPLOSION_FORCE * (r - d)
                  /\ EXPLOSION_FORCE * (r - d) < (m + 1) * r
                  /\ a * Sign(C5_Pos(t) - explosions[x].pos) >= 0
          /\ (d = r => a = 0)
          /\ (2 * d = r => 2 * m = EXPLOSION_FORCE)

\* The magnitude does not grow with the distance, from the distance least on.
C5_NonIncreasing(x, least) ==
    \A t1, t2 \in C5_Targets :
        (/\ least <= C5_Dist(x, t1)
         /\ C5_Dist(x, t1) <= C5_Dist(x, t2)
         /\ C5_Dist(x, t2) <= explosions[x].size)
        => Abs(C5_Added(t1)) >= Abs(C5_Added(t2))

\* What the explosions of S together add to a target at p: nothing from one
\* whose centre it is at or whose radius it is out of.
RECURSIVE C5_Sum(_, _)
C5_Sum(S, p) ==
    IF S = {} THEN 0
    ELSE LET x == CHOOSE y \in S : TRUE
             d == Abs(p - explosions[x].pos)
             r == explosions[x].size
         IN  (IF d = 0 \/ d > r THEN 0
              ELSE Sign(p - explosions[x].pos) * ((EXPLOSION_FORCE * (r - d)) \div r))
               + C5_Sum(S \ {x}, p)

C13_FinishedExplosionRemoved ==
    [][StepOf("despawn_explosion")
        => \A x \in LiveExplosions(explosions) :
              explosions'[x].timer.finished
              => Cmd("despawn_explosion", x, 0) \in commands']_vars

\* The sizes at which Explosion::new is compared: around the ends of its
\* range, and the sizes explode requests.
C14_Sizes ==
    {0, 1, 49, 50, 51, 109, 110, 111, 200}
        \cup {EXPLOSION_SIZE_BASE + a * EXPLOSION_SIZE_STEP : a \in 0..STOMACH_CAP}

C14_DurationLaw ==
    \A s1 \in C14_Sizes, s2 \in C14_Sizes :
        /\ ExplosionDuration(s1) >= 50
        /\ ExplosionDuration(s1) <= 250
        /\ s1 <= s2 => ExplosionDuration(s1) <= ExplosionDuration(s2)

\* C14: an Explosion of size s is not removed before the simulated time since
\* its creation has reached its duration, 50 ms + clamp((s - 50) / 60, 0, 1) *
\* 200 ms; the duration does not decrease as s grows and lies between 50 ms
\* and 250 ms.
C14_LivesItsDuration ==
    [][/\ C14_DurationLaw
       /\ \A x \in LiveExplosions(explosions) :
             (/\ Cmd("despawn_explosion", x, 0) \in commands'
              /\ Cmd("despawn_explosion", x, 0) \notin commands)
             => explosions[x].age >= ExplosionDuration(explosions[x].size)]_vars

\* The explosions whose radius reaches the point p.
C15_Reaching(p) ==
    {x \in LiveExplosions(explosions) : Abs(p - explosions[x].pos) <= explosions[x].size}

\* C15: the explosion force is applied to every kind of target alike: each
\* enemy, food, player and spawner within the radius of a live Explosion has
\* an ExternalImpulse and receives the falloff-scaled outward impulse in the
\* run of explosion_force_system, while a target beyond every radius and the
\* Explosions themselves receive none.
C15_ForceOnEveryKind ==
    [][StepOf("explosion_force_system")
        => /\ \A e \in LiveEnemies(enemy) :
                /\ "Enemy" \in ExternalImpulseKinds
                /\ enemy'[e].impulse - enemy[e].impulse
                     = ExplosionImpulses(C15_Reaching(enemy[e].pos), enemy[e].pos)
           /\ player.alive
                => /\ "Player" \in ExternalImpulseKinds
                   /\ player'.impulse - player.impulse
                        = ExplosionImpulses(C15_Reaching(player.pos), player.pos)
           /\ \A f \in LiveFood(food) :
                C15_Reaching(food[f].pos) # {} => "Food" \in ExternalImpulseKinds
           /\ \A s \in LiveSpawners(spawners) :
                C15_Reaching(spawners[s].pos) # {} => "Spawner" \in ExternalImpulseKinds
           /\ explosions' = explosions]_vars

\* ------------------------------------------------------------ claims: the punch

\* The swish requests in a queue of spawn events.
C16_Swishes(events) == {i \in DOMAIN events : events[i].kind = "PunchSwish"}

\* C16: a punch starts only on a press of the button while the glove is not
\* punching: that press empties the hit set, resets the timer to 0, sets
\* is_punching and requests exactly one swish; a press while the glove is
\* punching leaves the timer, the hit set and is_punching as they are and
\* requests no swish.
C16_PunchStartsOnPress ==
    [][/\ (~glove.is_punching /\ glove'.is_punching)
          => StepOf("punch_input_system") /\ mouse.just_pressed
       /\ Cardinality(C16_Swishes(spawnEvents')) > Cardinality(C16_Swishes(spawnEvents))
          => /\ StepOf("punch_input_system")
             /\ mouse.just_pressed /\ ~glove.is_punching
       /\ (StepOf("punch_input_system") /\ mouse.just_pressed /\ glove.alive)
          => IF glove.is_punching
             THEN /\ glove'.timer = glove.timer
                  /\ glove'.hit_entities = glove.hit_entities
                  /\ glove'.is_punching
                  /\ spawnEvents' = spawnEvents
             ELSE /\ glove'.hit_entities = {}
                  /\ glove'.timer.elapsed = 0 /\ ~glove'.timer.finished
                  /\ glove'.is_punching
                  /\ spawnEvents' = Append(spawnEvents, SoundEvent("PunchSwish"))]_vars

\* The button is pressed in the middle of a punch that has hit something, and
\* punch_input_system has run, first of the frame: the punch goes on.
C16_Witness ==
    /\ todo = PunchSystems \ {"punch_input_system"}
    /\ mouse.just_pressed
    /\ glove.is_punching
    /\ glove.timer.elapsed > 0
    /\ glove.hit_entities # {}

\* The active phase of the claims: punching, with progress t = elapsed /
\* duration below 0.5.
C17_Active == glove.is_punching /\ 2 * glove.timer.elapsed < glove.timer.duration

C17_HitSounds(events) == {i \in DOMAIN events : events[i].kind = "PunchSound"}

\* C17: punch hits register only in the active phase: while the glove is not
\* punching or its progress is 0.5 or more, no step adds a target to the hit
\* set, counts a punch impulse or requests a hit sound, and neither hit system
\* changes a creature; while the glove is punching, retraction included, no
\* step takes a target out of the hit set.
C17_HitsOnlyInActivePhase ==
    [][/\ ~C17_Active
          => /\ glove'.hit_entities \subseteq glove.hit_entities
             /\ \A t \in PunchTargets : punchHits'[t] <= punchHits[t]
             /\ Cardinality(C17_HitSounds(spawnEvents'))
                  <= Cardinality(C17_HitSounds(spawnEvents))
             /\ (StepOf("punch_hit_system") \/ StepOf("manual_punch_check_system"))
                  => enemy' = enemy /\ food' = food /\ player' = player
       /\ glove.is_punching => glove.hit_entities \subseteq glove'.hit_entities]_vars

\* The glove is retracting with a hit on record, a creature not yet hit is in
\* its reach and in contact with it, and both hit systems have run.
C17_Witness ==
    /\ {"punch_hit_system", "manual_punch_check_system"} \cap todo = {}
    /\ {"move_cursor", "punch_input_system"} \subseteq todo
    /\ glove.is_punching /\ ~C17_Active
    /\ glove.hit_entities # {}
    /\ \E e \in LiveEnemies(enemy) :
         /\ InGloveReach(glove, enemy[e].pos)
         /\ e \notin glove.hit_entities
         /\ enemy[e].impulse = 0

\* C18: Food is a punch target on the terms of an Enemy: the first detection of
\* a Food item by the glove in the active phase of a punch, by a collision
\* start or by proximity, applies a knockback impulse to the Food and requests
\* a hit sound.
C18_FoodIsPunched ==
    [][\A f \in LiveFood(food) :
          (/\ StepOf("punch_hit_system") \/ StepOf("manual_punch_check_system")
           /\ f \notin glove.hit_entities
           /\ f \in glove'.hit_entities)
          => /\ "Food" \in ExternalImpulseKinds
             /\ punchHits'[f] = punchHits[f] + 1
             /\ Cardinality(C17_HitSounds(spawnEvents'))
                  > Cardinality(C17_HitSounds(spawnEvents))]_vars

\* The path that runs second in a frame meets the creature e in the active
\* phase: the proximity path finds it in the glove's reach, the collision
\* path reads a collision start of the glove with it.
C19_ProximitySecond(e) ==
    /\ StepOf("manual_punch_check_system") /\ "punch_hit_system" \notin todo
    /\ C17_Active
    /\ InGloveReach(glove, enemy[e].pos)

C19_CollisionSecond(e) ==
    /\ StepOf("punch_hit_system") /\ "manual_punch_check_system" \notin todo
    /\ C17_Active
    /\ \E i \in DOMAIN punchCollisions :
          punchCollisions[i] \in {<<"glove", e>>, <<e, "glove">>}

\* The second path leaves the creature as the first path punched it.
C19_Untouched(e) ==
    /\ enemy'[e] = enemy[e]
    /\ Cardinality(C17_HitSounds(spawnEvents'))
         = Cardinality(C17_HitSounds(spawnEvents))

C21_Caught(e) ==
    /\ enemy[e].alive /\ "Exploding" \notin enemy[e].tags
    /\ \E x \in ExplosionIds :
         /\ explosions[x].alive
         /\ Abs(explosions[x].pos - enemy[e].pos) < explosions[x].size

\* A StartExplodingEvent for e is unread; an insert of Exploding on e is queued.
C21_Pending(e) == startExplodingEvents[e] > 0
C21_Queued(cmds, e) == \E c \in cmds : c.op = "insert_exploding" /\ c.ent = e

\* C21: a creature that is not Exploding and lies strictly within a live
\* Explosion when start_explode runs is Exploding within the next two ticks,
\* Hungry or Hunting, wherever the player is. start_explode writes its event;
\* the event stays unread until start_exploding_event_handler runs, which is
\* in every tick, the same or the next; the handler queues the insert of
\* Exploding; the end of that tick applies it.
C21_ChainReaction ==
    [][\A e \in EnemyIds :
          /\ (StepOf("start_explode") /\ C21_Caught(e)) => C21_Pending(e)'
          /\ (C21_Pending(e) /\ enemy[e].alive)
             => /\ enemy'[e].alive
                /\ IF StepOf("start_exploding_event_handler")
                   THEN C21_Queued(commands', e)
                   ELSE C21_Pending(e)'
          /\ (C21_Queued(commands, e) /\ enemy[e].alive /\ todo # {})
             => C21_Queued(commands', e)
          /\ (C21_Queued(commands, e) /\ enemy[e].alive /\ todo = {})
             => (enemy'[e].alive => "Exploding" \in enemy'[e].tags)
          /\ todo = {} => "start_exploding_event_handler" \in todo']_vars

\* A creature that has not eaten its fill, with the player out of reach, has
\* just become Exploding: an explosion has set it off.
C21_Witness ==
    /\ todo = ExplodeSystems
    /\ \E e \in LiveEnemies(enemy) :
         /\ "Exploding" \in enemy[e].tags
         /\ "Hunting" \notin enemy[e].tags
         /\ enemy[e].exploding.elapsed = 0
         /\ Abs(enemy[e].pos - player.pos) >= START_EXPLODING_DISTANCE

\* C22: a creature enters Exploding for one of two reasons only: it was Hunting
\* and closer than START_EXPLODING_DISTANCE to the player, or it was strictly
\* inside a live Explosion; a creature that is not Hunting and is never inside
\* an Explosion never becomes Exploding, however close the player is. Exploding
\* comes from a queued insert only, an insert from an unread StartExplodingEvent
\* only, and an event from one of the two reasons only.
C22_OnlyTwoReasons ==
    [][\A e \in EnemyIds :
          /\ startExplodingEvents'[e] > startExplodingEvents[e]
             => \/ /\ StepOf("start_explode_near_player")
                   /\ enemy[e].alive /\ "Hunting" \in enemy[e].tags
                   /\ player.alive
                   /\ Abs(enemy[e].pos - player.pos) < START_EXPLODING_DISTANCE
                \/ /\ StepOf("start_explode")
                   /\ C21_Caught(e)
          /\ (C21_Queued(commands', e) /\ ~C21_Queued(commands, e))
             => StepOf("start_exploding_event_handler") /\ C21_Pending(e)
          /\ ("Exploding" \in enemy'[e].tags /\ "Exploding" \notin enemy[e].tags)
             => C21_Queued(commands, e)]_vars

\* A creature that has not eaten its fill stands within
\* START_EXPLODING_DISTANCE of the player and out of every explosion; the three
\* systems that start an explosion have run and nothing is under way.
C22_Witness ==
    /\ {"start_explode_near_player", "start_explode",
        "start_exploding_event_handler"} \cap todo = {}
    /\ player.alive
    /\ \E e \in LiveEnemies(enemy) :
         /\ "Hunting" \notin enemy[e].tags /\ "Exploding" \notin enemy[e].tags
         /\ Abs(enemy[e].pos - player.pos) < START_EXPLODING_DISTANCE
         /\ ~C21_Caught(e)
         /\ ~C21_Pending(e) /\ ~C21_Queued(commands, e)

\* C23: on entering Exploding a creature's velocity is halved exactly once: the
\* handler that queues the Exploding of a creature not yet Exploding leaves it
\* with one half of the velocity it had, also when the creature lies inside
\* several Explosions or is both near the player and inside an Explosion.
C23_HalvedOnce ==
    [][\A e \in EnemyIds :
          (/\ StepOf("start_exploding_event_handler")
           /\ enemy[e].alive /\ "Exploding" \notin enemy[e].tags
           /\ ~C21_Queued(commands, e)
           /\ C21_Queued(commands', e))
          => 2 * enemy'[e].vel = enemy[e].vel]_vars

\* C24: the shake of an Exploding creature leaves the position that the overlap
\* and distance tests and the spawned Explosion read as it is: a run of
\* shake_when_explode changes no creature's position.
C24_ShakeIsRenderOnly ==
    [][StepOf("shake_when_explode")
        => \A e \in EnemyIds : enemy'[e].pos = enemy[e].pos]_vars

\* ------------------------------------------------------------ claims: seeking food

\* The creature e seeks food: Hungry, neither Hunting nor Exploding.
C25_SeekingFood(e) ==
    /\ enemy[e].alive /\ "Hungry" \in enemy[e].tags
    /\ "Hunting" \notin enemy[e].tags /\ "Exploding" \notin enemy[e].tags

\* The velocity of e has moved toward the food f by the capped step: by
\* ENEMY_ACCELERATION * delta at most, straight at the target velocity.
C25_SteeredTo(e, f) ==
    LET target == Sign(food[f].pos - enemy[e].pos) * ENEMY_MAX_SPEED_BASE * VelScale
        step == (ENEMY_ACCELERATION * dt * VelScale) \div 1000
        moved == Abs(enemy'[e].vel - enemy[e].vel)
    IN  /\ moved = Min(Abs(target - enemy[e].vel), step)
        /\ Abs(target - enemy'[e].vel) = Abs(target - enemy[e].vel) - moved

\* C25: in a tick without any Food, run_to_food leaves the velocity of every
\* creature that seeks food unchanged; in a tick with food it steers each
\* creature that seeks food toward a Food at the least distance from it, and
\* it never steers a Hunting or an Exploding creature.
C25_RunToFood ==
    [][StepOf("run_to_food")
        => \A e \in LiveEnemies(enemy) :
              IF C25_SeekingFood(e) /\ \E f \in DOMAIN food : food[f].alive
              THEN \E f \in DOMAIN food :
                      /\ food[f].alive
                      /\ \A g \in DOMAIN food :
                            food[g].alive
                            => Abs(food[f].pos - enemy[e].pos)
                                 <= Abs(food[g].pos - enemy[e].pos)
                      /\ C25_SteeredTo(e, f)
                      /\ enemy'[e] = [enemy[e] EXCEPT !.vel = enemy'[e].vel]
              ELSE enemy'[e] = enemy[e]]_vars

\* A creature at rest that seeks food, with one food near on its left and one
\* far on its right, has been steered to the left.
C25_Witness ==
    /\ "run_to_food" \notin todo
    /\ \E e \in LiveEnemies(enemy) :
         /\ C25_SeekingFood(e)
         /\ enemy[e].vel < 0
         /\ \E f, g \in DOMAIN food :
              /\ food[f].alive /\ food[g].alive
              /\ food[f].pos < enemy[e].pos /\ enemy[e].pos < food[g].pos
              /\ enemy[e].pos - food[f].pos < food[g].pos - enemy[e].pos

\* ------------------------------------------------------------ claims: no player

\* C26: in a tick in which no player entity exists, run_to_player,
\* start_explode_near_player, damage_player_from_explosions and move_cursor
\* are no-ops: the step of each changes no creature's velocity, writes no
\* StartExplodingEvent, changes no player health and does not move the
\* cursor, and the system ends, so that the frame goes on to the systems
\* that have not run yet.
C26_NoPlayerNoOp ==
    [][\A system \in {"run_to_player", "start_explode_near_player",
                      "damage_player_from_explosions", "move_cursor"} :
          (StepOf(system) /\ ~player.alive)
          => /\ \A e \in EnemyIds : enemy'[e].vel = enemy[e].vel
             /\ startExplodingEvents' = startExplodingEvents
             /\ player'.health = player.health
             /\ player'.cooldown = player.cooldown
             /\ glove' = glove
             /\ todo' = todo \ {system}]_vars

\* The four systems have run in a frame without a player, in which there were
\* a Hunting creature and an Explosion at the origin, and a punching glove.
C26_Witness ==
    /\ ~player.alive
    /\ todo \cap {"run_to_player", "start_explode_near_player",
                  "damage_player_from_explosions", "move_cursor"} = {}
    /\ \E e \in LiveEnemies(enemy) :
         "Hunting" \in enemy[e].tags /\ "Exploding" \notin enemy[e].tags
    /\ \E x \in ExplosionIds : explosions[x].alive
    /\ glove.alive /\ glove.is_punching

\* ------------------------------------------------------------ claims: stale events

\* What the event's entity is when eat reads the event.
C27_IsFood(x) == x \in DOMAIN food /\ food[x].alive
C27_IsEnemy(x) == x \in DOMAIN enemy /\ enemy[x].alive /\ "Hungry" \in enemy[x].tags

\* A collision start that is not stale: a Food and a creature, both there.
C27_Valid(ev) ==
    \/ C27_IsFood(ev[1]) /\ C27_IsEnemy(ev[2])
    \/ C27_IsFood(ev[2]) /\ C27_IsEnemy(ev[1])

\* The entity x is named by an event that is not stale.
C27_Touched(x) ==
    \E i \in DOMAIN collisionEvents :
        C27_Valid(collisionEvents[i]) /\ x \in {collisionEvents[i][1], collisionEvents[i][2]}

\* An event that is not stale, of a food that is left and a creature whose
\* eat cooldown has finished.
C27_Eatable ==
    \E i \in DOMAIN collisionEvents, f \in DOMAIN food, e \in DOMAIN enemy :
        /\ collisionEvents[i] \in {<<f, e>>, <<e, f>>}
        /\ C27_IsFood(f) /\ C27_IsEnemy(e)
        /\ food[f].qty > 0 /\ enemy[e].eatTimer.finished

\* C27: stale events are dropped without effect.  A collision start that
\* names a despawned entity, or a pair that is not a Food and a creature,
\* changes no food quantity and no creature's appetite, speed, velocity or
\* impulse and queues nothing, and the events after it are processed: an
\* event that can be eaten on is eaten on.  A StartExplodingEvent that names
\* a despawned creature changes nothing and queues no Exploding, and the
\* events of the live creatures are handled.
C27_StaleEventsDropped ==
    [][/\ StepOf("eat")
          => /\ \A e \in DOMAIN enemy :
                   ~C27_Touched(e)
                   => /\ enemy'[e] = enemy[e]
                      /\ \A c \in commands' \ commands : c.ent # e
             /\ \A f \in DOMAIN food : ~C27_Touched(f) => food'[f] = food[f]
             /\ C27_Eatable => \E f \in DOMAIN food : food'[f].qty < food[f].qty
       /\ StepOf("start_exploding_event_handler")
          => \A e \in DOMAIN enemy :
                IF enemy[e].alive
                THEN startExplodingEvents[e] > 0 => C21_Queued(commands', e)
                ELSE /\ enemy'[e] = enemy[e]
                     /\ \A c \in commands' \ commands : c.ent # e]_vars

\* eat has run past its events and a creature has eaten, with another
\* creature despawned whose StartExplodingEvent the handler is still to read.
C27_Witness ==
    /\ "eat" \notin todo
    /\ "start_exploding_event_handler" \in todo
    /\ \E e \in DOMAIN enemy : ~enemy[e].alive /\ startExplodingEvents[e] > 0
    /\ \E e \in DOMAIN enemy : enemy[e].alive /\ enemy[e].appetite = 1
    /\ \E f \in DOMAIN food : food[f].alive /\ food[f].qty = 0

\* ------------------------------------------------------------ claims: sharing a food

\* The creatures with a collision start with the food f among the events.
C28_Colliding(f) ==
    {e \in DOMAIN enemy :
        /\ C27_IsEnemy(e)
        /\ \E i \in DOMAIN collisionEvents : collisionEvents[i] \in {<<f, e>>, <<e, f>>}}

\* The creatures among them that eat in the step.
C28_Eaters(f) ==
    {e \in C28_Colliding(f) : enemy'[e].appetite = enemy[e].appetite + 1}

\* The creatures among them that the step leaves as they were.
C28_Others(f) ==
    {e \in C28_Colliding(f) :
        /\ enemy'[e].appetite = enemy[e].appetite
        /\ enemy'[e].speed = enemy[e].speed
        /\ enemy'[e].impulse = enemy[e].impulse}

\* Several creatures collide with the food f of quantity 1.
C28_Shared(f) ==
    C27_IsFood(f) /\ food[f].qty = 1 /\ Cardinality(C28_Colliding(f)) >= 2

\* The quantity never drops below 0; despawn_eaten_food queues the despawn
\* of the foods of quantity below 1 and of no other, and the flush despawns
\* the foods whose despawn is queued and no other.
C28_QuantityAndDespawn ==
    /\ \A f \in DOMAIN food : food'[f].qty >= 0
    /\ StepOf("despawn_eaten_food")
       => \A f \in DOMAIN food :
             Cmd("despawn_food", f, 0) \in commands'
             <=> (food[f].alive /\ food[f].qty < 1)
    /\ todo = {}
       => \A f \in DOMAIN food :
             food[f].alive
             => (food'[f].alive <=> Cmd("despawn_food", f, 0) \notin commands)

\* C28 as it is stated: exactly one of the creatures eats, whether or not
\* any of them has its eat cooldown finished.
C28_ExactlyOneEats_AsClaimed ==
    /\ \A f \in DOMAIN food : food[f].alive => food[f].qty = FOOD_QUANTITY
    /\ [][/\ C28_QuantityAndDespawn
          /\ StepOf("eat")
             => \A f \in DOMAIN food :
                   C28_Shared(f)
                   => /\ Cardinality(C28_Eaters(f)) = 1
                      /\ C28_Eaters(f) \cup C28_Others(f) = C28_Colliding(f)]_vars

\* C28: the Food quantity starts at 1 and never drops below 0.  When the
\* collision starts of several creatures with the same Food of quantity 1
\* are processed in one tick, at most one creature eats (appetite +1 and
\* quantity 0), exactly one when the eat cooldown of one of them has
\* finished (this Food being the only one it collides with in the tick),
\* and the others keep appetite, speed and impulse; a Food of
\* quantity below 1 is despawned and one of quantity 1 or more is never
\* despawned by despawn_eaten_food.
C28_AtMostOneEats ==
    /\ \A f \in DOMAIN food : food[f].alive => food[f].qty = FOOD_QUANTITY
    /\ [][/\ C28_QuantityAndDespawn
          /\ StepOf("eat")
             => \A f \in DOMAIN food :
                   C28_Shared(f)
                   => /\ Cardinality(C28_Eaters(f)) =
                           (IF \E e \in C28_Colliding(f) : enemy[e].eatTimer.finished
                            THEN 1 ELSE 0)
                      /\ food'[f].qty = 1 - Cardinality(C28_Eaters(f))
                      /\ C28_Eaters(f) \cup C28_Others(f) = C28_Colliding(f)]_vars

\* eat has run: the food is eaten up by one creature, and another creature
\* whose eat cooldown has finished has not eaten.
C28_Witness ==
    /\ "eat" \notin todo
    /\ "tick_eat_cooldown" \in todo
    /\ \E f \in DOMAIN food : food[f].alive /\ food[f].qty = 0
    /\ \E e1, e2 \in DOMAIN enemy :
         /\ enemy[e1].alive /\ enemy[e1].appetite = 1 /\ enemy[e1].impulse # 0
         /\ enemy[e2].alive /\ enemy[e2].appetite = 0 /\ enemy[e2].eatTimer.finished

\* ------------------------------------------------------------ claims: the player's health

\* C29: the player's health starts at 5, never increases, never goes below 0
\* and drops by at most 1 per window of 1.0 s of simulated time: a step takes
\* one health at most, and only when 1.0 s has passed since the health was
\* last taken (or since the start), however many Explosions reach the player
\* in the tick or in the ticks before.
C29_HealthDropsOncePerWindow ==
    /\ player.health = 5
    /\ [][/\ player'.health <= player.health
          /\ player'.health >= 0
          /\ player'.health < player.health
             => /\ player'.health = player.health - 1
                /\ player.since >= 1000]_vars

\* The health has been taken for the second time, in a tick in which two
\* Explosions reach the player.
C29_Witness ==
    /\ "damage_player_from_explosions" \notin todo
    /\ player.alive /\ player.health = 3 /\ player.since = 0
    /\ \A x \in ExplosionIds :
         /\ explosions[x].alive
         /\ Abs(player.pos - explosions[x].pos) <= 20 + explosions[x].size

\* ------------------------------------------------------------ claims: the order of the states

\* The behaviour state the systems treat the creature as being in.
C30_State(en) ==
    IF "Exploding" \in en.tags THEN "Exploding"
    ELSE IF "Hunting" \in en.tags THEN "Hunting"
    ELSE "SeekingFood"

\* The velocity of e has moved toward the player by the capped step.
C30_SteeredToPlayer(e) ==
    LET target == Sign(player.pos - enemy[e].pos)
                    * ENEMY_MAX_SPEED_BASE * enemy[e].speed * VelScale
        step == (ENEMY_ACCELERATION * dt * VelScale) \div 1000
        moved == Abs(enemy'[e].vel - enemy[e].vel)
    IN  /\ moved = Min(Abs(target - enemy[e].vel), step)
        /\ Abs(target - enemy'[e].vel) = Abs(target - enemy[e].vel) - moved

\* C30: the behaviour states only move forward.  A Hunting creature is never
\* SeekingFood again: it stays Hunting until it is Exploding, run_to_food
\* leaves it alone, and run_to_player, which runs in every frame, steers it
\* toward the player as long as it is not Exploding.  An Exploding creature
\* stays Exploding until it is despawned.
C30_StatesMoveForward ==
    [][/\ \A e \in LiveEnemies(enemy) :
            /\ (C30_State(enemy[e]) = "Hunting" /\ enemy'[e].alive)
               => C30_State(enemy'[e]) \in {"Hunting", "Exploding"}
            /\ (C30_State(enemy[e]) = "Exploding" /\ enemy'[e].alive)
               => C30_State(enemy'[e]) = "Exploding"
            /\ (C30_State(enemy[e]) # "SeekingFood" /\ StepOf("run_to_food"))
               => enemy'[e] = enemy[e]
            /\ (C30_State(enemy[e]) = "Hunting" /\ StepOf("run_to_player"))
               => C30_SteeredToPlayer(e)
       /\ todo = {} => "run_to_player" \in todo']_vars

\* A creature that ate its fill and turned Hunting, far from the player, has
\* been steered toward the player and is Hunting still.
C30_Witness ==
    /\ "run_to_player" \notin todo
    /\ \E e \in LiveEnemies(enemy) :
         /\ C30_State(enemy[e]) = "Hunting"
         /\ enemy[e].appetite = STOMACH_CAP
         /\ Abs(player.pos - enemy[e].pos) >= START_EXPLODING_DISTANCE
         /\ enemy[e].vel * Sign(player.pos - enemy[e].pos) > 0
         /\ startExplodingEvents[e] = 0

\* ------------------------------------------------------------ claims: spawners

\* C6: every spawner's health is within 0..MAX_SPAWNER_HEALTH, never
\* increases, and changes only by a decrement of exactly one.
C6_SpawnerHealth ==
    /\ \A x \in LiveSpawners(spawners) : spawners[x].health \in 0..MAX_SPAWNER_HEALTH
    /\ [][\A x \in LiveSpawners(spawners) :
            /\ spawners'[x].health \in 0..MAX_SPAWNER_HEALTH
            /\ \/ spawners'[x].health = spawners[x].health
               \/ spawners'[x].health = spawners[x].health - 1]_vars

\* A spawner has just been damaged with two explosions in reach at once.
C6_Witness ==
    /\ "damage_spawners_from_explosions" \notin todo
    /\ "tick_cooldown_timers" \in todo
    /\ \E x \in LiveSpawners(spawners) :
         /\ spawners[x].health < MAX_SPAWNER_HEALTH
         /\ spawners[x].cooldown.elapsed = 0
         /\ ~spawners[x].cooldown.finished
         /\ \A y \in ExplosionIds :
              explosions[y].alive /\ ExplosionReaches(explosions[y], spawners[x])

\* The Enemy requests in a queue of spawn events that ask for a creature next
\* to the spawner sp.
C7_RequestsOf(events, sp) ==
    {i \in DOMAIN events :
        events[i].kind = "Enemy" /\ events[i].pos = sp.pos - SPAWNER_SIZE}

C20_CooldownBetweenDecrements ==
    [][\A x \in LiveSpawners(spawners) :
          spawners'[x].health < spawners[x].health
          => spawners[x].since >= SPAWNER_COOLDOWN_MS]_vars

\* ------------------------------------------------------------ claims: the end of a creature

\* The Explosion requests written for creatures so far.
C31_Requested == \E i \in DOMAIN spawnEvents : spawnEvents[i].kind = "Explosion"

\* C31: every creature that enters Exploding is eventually despawned and
\* replaced by an Explosion request, in every run in which the frames go on
\* and advance the time: no sequence of StartExplodingEvents keeps it
\* Exploding for ever.
C31_ExplodingEnds ==
    \A e \in EnemyIds :
        (enemy[e].alive /\ "Exploding" \in enemy[e].tags)
            ~> (~enemy[e].alive /\ C31_Requested)

\* A creature was Exploding, was despawned, and its Explosion is requested.
C31_Witness ==
    /\ \E e \in EnemyIds : ~enemy[e].alive
    /\ C31_Requested
    /\ todo = ExplodeSystems

\* ------------------------------------------------------------ claims: the end of a punch

\* C32: every punch activation ends.  While the glove is punching, the step
\* of move_cursor ends the punch exactly when the time the timer has
\* accumulated, the frame's included, reaches the 0.2 s of the punch, and no
\* other step ends it; in every run in which the frames go on the punch
\* does end.  The hit-set loses nothing until the next punch starts.
C32_PunchEnds ==
    /\ [][/\ (glove.is_punching /\ StepOf("move_cursor"))
             => (glove'.is_punching <=> glove.timer.elapsed + dt < 200)
          /\ (glove.is_punching /\ ~StepOf("move_cursor")) => glove'.is_punching
          /\ ~(glove.hit_entities \subseteq glove'.hit_entities)
             => /\ StepOf("punch_input_system")
                /\ ~glove.is_punching /\ glove'.is_punching
                /\ glove'.hit_entities = {}]_vars
    /\ glove.is_punching ~> ~glove.is_punching

\* A punch has ended with a target in its hit-set.
C32_Witness ==
    /\ "move_cursor" \notin todo
    /\ glove.alive /\ ~glove.is_punching
    /\ glove.timer.finished
    /\ glove.hit_entities # {}

\* ------------------------------------------------------------ claims: the spawn timer

\* The live spawners whose spawn timer fires in this tick while health is left.
C33_Firing ==
    {x \in SpawnerIds :
        /\ spawners[x].alive
        /\ spawners[x].timer.elapsed + dt >= 10000
        /\ spawners[x].health > 0}

\* The places of the Enemy requests among the events.
C33_EnemyRequests(events) == {i \in DOMAIN events : events[i].kind = "Enemy"}

\* C33: in a tick in which the repeating spawn timer of an active spawner
\* (health > 0) fires, spawn_enemy writes exactly one SpawnEvent::Enemy for
\* it, at the spawner's position shifted by SPAWNER_SIZE along x; for a
\* spawner whose timer does not fire it writes none, and no other system
\* writes an Enemy request.
C33_OneRequestPerFiring ==
    [][IF StepOf("spawn_enemy")
       THEN /\ Len(spawnEvents') = Len(spawnEvents) + Cardinality(C33_Firing)
            /\ \A i \in DOMAIN spawnEvents : spawnEvents'[i] = spawnEvents[i]
            /\ \A i \in DOMAIN spawnEvents' \ DOMAIN spawnEvents :
                  /\ spawnEvents'[i].kind = "Enemy"
                  /\ \E x \in C33_Firing :
                        Abs(spawnEvents'[i].pos - spawners[x].pos) = 50
            /\ \A x \in C33_Firing :
                  \E i \in DOMAIN spawnEvents' \ DOMAIN spawnEvents :
                        Abs(spawnEvents'[i].pos - spawners[x].pos) = 50
       ELSE Cardinality(C33_EnemyRequests(spawnEvents'))
               <= Cardinality(C33_EnemyRequests(spawnEvents))]_vars

\* The spawn timer of an active spawner has fired and its request is written.
C33_Witness ==
    /\ "spawn_enemy" \notin todo
    /\ \E x \in SpawnerIds :
         /\ spawners[x].alive /\ spawners[x].health > 0
         /\ spawners[x].timer.finished
         /\ \E i \in C33_EnemyRequests(spawnEvents) :
               spawnEvents[i].pos = spawners[x].pos - 50

\* ------------------------------------------------------------ claims: the eat cooldown

\* C34: two successful eats of one creature are at least 0.1 s of simulated
\* time apart, and an eat step in which the creature's cooldown has not
\* finished leaves the food's quantity and the creature's appetite, speed
\* and impulse as they were.
C34_EatCooldown ==
    [][\A e \in EnemyIds :
         /\ (enemy[e].alive /\ enemy[e].appetite > 0
               /\ enemy'[e].appetite > enemy[e].appetite)
            => enemy[e].fasted >= 100
         /\ (StepOf("eat") /\ enemy[e].alive /\ ~enemy[e].eatTimer.finished)
            => /\ enemy'[e].appetite = enemy[e].appetite
               /\ enemy'[e].speed = enemy[e].speed
               /\ enemy'[e].impulse = enemy[e].impulse
               /\ \A f \in FoodIds : food'[f].qty = food[f].qty]_vars

\* The part of C34 about an event that arrives during the cooldown.
C34_NoEatDuringCooldown ==
    [][\A e \in EnemyIds :
         (StepOf("eat") /\ enemy[e].alive /\ ~enemy[e].eatTimer.finished)
            => /\ enemy'[e].appetite = enemy[e].appetite
               /\ enemy'[e].speed = enemy[e].speed
               /\ enemy'[e].impulse = enemy[e].impulse
               /\ \A f \in FoodIds : food'[f].qty = food[f].qty]_vars

\* ------------------------------------------------------------ claims: the speed

\* C35: the speed of every live creature is the base value 2 plus
\* ENEMY_SPEED_DELTA (5) times its appetite, and the two change only
\* together, in an eat step that adds one to the appetite and 5 to the speed.
C35_SpeedFollowsAppetite ==
    /\ [](\A e \in EnemyIds :
            enemy[e].alive => enemy[e].speed = 2 + 5 * enemy[e].appetite)
    /\ [][\A e \in EnemyIds :
            (/\ enemy[e].alive /\ enemy'[e].alive
             /\ \/ enemy'[e].speed # enemy[e].speed
                \/ enemy'[e].appetite # enemy[e].appetite)
            => /\ StepOf("eat")
               /\ enemy'[e].appetite = enemy[e].appetite + 1
               /\ enemy'[e].speed = enemy[e].speed + 5]_vars

\* A creature that has eaten three times.
C35_Witness ==
    \E e \in EnemyIds :
        /\ enemy[e].alive /\ enemy[e].appetite = 3 /\ enemy[e].speed = 17

\* ------------------------------------------------------------ claims: the food limit

\* The spawn commands of spawn_food among the queued commands.
C36_Spawns(cmds) == {c \in cmds : c.op = "spawn_food"}

C37_GameOverAtZero ==
    /\ [](player.next = "GameOver" => player.health = 0)
    /\ [][/\ StepOf("trigger_game_over")
             => /\ player.screen = "Gameplay"
                /\ player.health = 0 => player'.next = "GameOver"
                /\ player.health > 0 => player'.next = player.next
          /\ (player'.next = "GameOver" /\ player.next # "GameOver")
             => StepOf("trigger_game_over")
          /\ (player.screen # "Gameplay" /\ player'.screen = "Gameplay")
             => /\ player'.health = 5
                /\ player'.cooldown.elapsed = 0
                /\ ~player'.cooldown.finished
                /\ player'.cooldown.duration = 1000]_vars

\* The game was lost, the player is back at the Title screen with the health
\* at 0, and Gameplay is about to be entered again.
C37_Witness ==
    /\ player.screen = "Title" /\ player.next = "Gameplay"
    /\ player.health = 0

====
